---- MODULE Spec2Model ----
(***************************************************************************)
(* The int4 weight packer (weight_to_int4pack_kernel), the tiled dequant   *)
(* GEMM (tinygemm_kernel, three ISA variants) and the tile scheduler       *)
(* (int4pack_mm_kernel) of aten/src/ATen/native/cpu/int4mm_kernel.cpp.     *)
(*                                                                         *)
(* Buffers are flat arrays (functions from offsets to values), exactly as  *)
(* the code addresses them through raw pointers.  Floating point values    *)
(* are modelled by integers: every float32 operation of the kernel is      *)
(* exact on the integers used here (all magnitudes stay below 2^24), so    *)
(* the order of the fused multiply-adds does not change the accumulator;   *)
(* the narrowing to bfloat16 is the round-to-nearest-even to 8 significant *)
(* bits.                                                                   *)
(***************************************************************************)
EXTENDS Integers, Sequences, FiniteSets, TLC

\* ------------------------------------------------------------------ bounds
MaxM == 5
MaxNUnits == 10
MaxKGroups == 2
MaxK == 4
MaxTailUnits == 2
MaxThreads == 2

\* activation rows enumerated by the concrete scenarios
MaxAPat == 8

\* shapes handed to the packer on its own: every N and K from 1 up
MaxPackN == 70
MaxPackK == 3

\* group sizes handed to the kernel on its own: every size from 1 up
MaxGroupSize == 4

MaxLayoutK == 2

MaxCallers == 2

MaxIntBits == 3

\* ------------------------------------------------------------ bit helpers
\* the elements of a sequence, evaluated once
Stored(seq) == seq \o <<>>

\* x & y of two 4-bit values, at position 16 * x + y + 1
And4Table ==
  Stored([i \in 1..256 |->
            LET x == (i - 1) \div 16
                y == (i - 1) % 16
            IN ((x % 2) * (y % 2) + 2 * (((x \div 2) % 2) * ((y \div 2) % 2)))
               + (4 * (((x \div 4) % 2) * ((y \div 4) % 2))
                  + 8 * ((x \div 8) * (y \div 8)))])

And4(x, y) == And4Table[16 * x + y + 1]

\* a & b of non-negative ints below 2^12
BitAnd(a, b) ==
  And4(a % 16, b % 16)
  + (IF a < 16 \/ b < 16 THEN 0
     ELSE 16 * And4((a \div 16) % 16, (b \div 16) % 16)
          + (IF a < 256 \/ b < 256 THEN 0
             ELSE 256 * And4((a \div 256) % 16, (b \div 256) % 16)))

\* a | b of non-negative ints below 2^12
BitOr(a, b) == a + b - BitAnd(a, b)

\* (uint8_t)(x) of an int32 x
uint8(x) == x % 256

Min(a, b) == IF a < b THEN a ELSE b

Abs(x) == IF x < 0 THEN 0 - x ELSE x

\* e, evaluated once the function v has been evaluated
After(v, e) == IF DOMAIN v = DOMAIN v THEN e ELSE e

\* ------------------------------------------------------------ ISA variants
ISAs == {"avx512", "avx2", "ref"}

BLOCK_M == 4

\* BLOCK_N of the AVX512 build in every build
BLOCK_N_always_64(isa) == 64

\* vec::Vectorized<float>::size() * 4
BLOCK_N(isa) == IF isa = "avx512" THEN 64 ELSE 32

\* is_block_start that holds at every index
is_block_start_every_index(index, BLOCK_SIZE) == TRUE

\* return !(index & (BLOCK_SIZE - 1));
is_block_start(index, BLOCK_SIZE) == BitAnd(index, BLOCK_SIZE - 1) = 0

\* float32 -> bfloat16, round to nearest even on 8 significant bits
RECURSIVE Ulp(_, _)
Ulp(mag, step) == IF mag < 256 * step THEN step ELSE Ulp(mag, 2 * step)

cvtfp32_bf16(x) ==
  LET mag == Abs(x)
      step == Ulp(mag, 1)
      q == mag \div step
      rem == mag % step
      up == 2 * rem > step \/ (2 * rem = step /\ q % 2 = 1)
      r == (IF up THEN q + 1 ELSE q) * step
  IN IF x < 0 THEN 0 - r ELSE r

\* the result of a float operation whose exact value is x units of 2^-24:
\* round to nearest even on 24 significant bits
RECURSIVE Ulp24(_, _)
Ulp24(mag, step) ==
  IF mag < 16777216 * step THEN step ELSE Ulp24(mag, 2 * step)

fp32(x) ==
  LET mag == Abs(x)
      step == Ulp24(mag, 1)
      q == mag \div step
      rem == mag % step
      up == 2 * rem > step \/ (2 * rem = step /\ q % 2 = 1)
      r == (IF up THEN q + 1 ELSE q) * step
  IN IF x < 0 THEN -r ELSE r

\* ------------------------------------------------------ weight_to_int4pack
\* pack_byte with the two nibbles exchanged
pack_byte_swapped(val1, val0) == uint8(BitOr(uint8(val0) * 16, uint8(val1)))

\* pack_byte that drops val1
pack_byte_low_only(val1, val0) == uint8(val0) % 16

\* uint8_t packed = (((uint8_t)(val1) << 4)) | ((uint8_t)(val0));
pack_byte(val1, val0) == uint8(BitOr(uint8(val1) * 16, uint8(val0)))

\* PackStores with the adjacent pairing in every block
PackStores_adjacent(isa, weight, N, K, i) ==
  LET nb_size == Min(BLOCK_N(isa), N - i * BLOCK_N(isa))
      src == i * BLOCK_N(isa) * K
      dst == (i * K * BLOCK_N(isa)) \div 2
      perK == (nb_size + 1) \div 2
      store(k, j) ==
        LET n == 2 * j
            val0 == weight[src + n * K + k]
            val1 == weight[src + n * K + K + k]
        IN [off |-> dst + (k * nb_size) \div 2 + n \div 2,
            val |-> pack_byte(val1, val0),
            reads |-> {src + n * K + k, src + n * K + K + k}]
  IN Stored([t \in 1..(K * perK) |-> store((t - 1) \div perK, (t - 1) % perK)])

\* the stores of N-block i into weight_packed, in program order (body of
\* the loop over i, one record per assignment to dst[...], with the offsets
\* of src it is computed from)
PackStores(isa, weight, N, K, i) ==
  LET nb_size == Min(BLOCK_N(isa), N - i * BLOCK_N(isa))
      src == i * BLOCK_N(isa) * K
      dst == (i * K * BLOCK_N(isa)) \div 2
      full == isa # "ref" /\ nb_size = BLOCK_N(isa)
      perK == IF ~full THEN (nb_size + 1) \div 2
              ELSE IF isa = "avx512" THEN 32 ELSE 16
      store(k, j) ==
        IF full /\ isa = "avx512" THEN
          LET d == j \div 2
              val0 == weight[src + (d + 0) * K + k]
              val1 == weight[src + (d + 16) * K + k]
              val2 == weight[src + (d + 32) * K + k]
              val3 == weight[src + (d + 48) * K + k]
          IN IF j % 2 = 0
             THEN [off |-> dst + k * 32 + d, val |-> pack_byte(val2, val0),
                   reads |-> {src + (d + 0) * K + k, src + (d + 32) * K + k}]
             ELSE [off |-> dst + k * 32 + 16 + d, val |-> pack_byte(val3, val1),
                   reads |-> {src + (d + 16) * K + k, src + (d + 48) * K + k}]
        ELSE IF full THEN
          LET d == j
              val0 == weight[src + (d + 0) * K + k]
              val1 == weight[src + (d + 16) * K + k]
          IN [off |-> dst + k * 16 + d, val |-> pack_byte(val1, val0),
              reads |-> {src + (d + 0) * K + k, src + (d + 16) * K + k}]
        ELSE
          LET n == 2 * j
              val0 == weight[src + n * K + k]
              val1 == weight[src + n * K + K + k]
          IN [off |-> dst + (k * nb_size) \div 2 + n \div 2,
              val |-> pack_byte(val1, val0),
              reads |-> {src + n * K + k, src + n * K + K + k}]
  IN Stored([t \in 1..(K * perK) |-> store((t - 1) \div perK, (t - 1) % perK)])

\* memory after stores[lo..hi], applied in order
RECURSIVE ApplyStores(_, _, _, _)
ApplyStores(mem, stores, lo, hi) ==
  IF lo > hi THEN mem
  ELSE IF lo = hi THEN [mem EXCEPT ![stores[lo].off] = stores[lo].val]
  ELSE LET mid == (lo + hi) \div 2
           left == ApplyStores(mem, stores, lo, mid)
       IN After(left, ApplyStores(left, stores, mid + 1, hi))

NBlocks(isa, N) == (N + BLOCK_N(isa) - 1) \div BLOCK_N(isa)

\* weight_packed after the loop iterations i, i + 1, .., NB - 1
RECURSIVE PackFrom(_, _, _, _, _, _)
PackFrom(isa, weight, N, K, i, mem) ==
  IF i >= NBlocks(isa, N) THEN mem
  ELSE LET stores == PackStores(isa, weight, N, K, i)
           done == ApplyStores(mem, stores, 1, Len(stores))
       IN After(done, PackFrom(isa, weight, N, K, i + 1, done))

\* the whole of weight_to_int4pack_kernel on a zeroed buffer
weight_to_int4pack(isa, weight, N, K) ==
  PackFrom(isa, weight, N, K, 0, [o \in 0..((N * K) \div 2 - 1) |-> 0])

\* ---------------------------------------------------------- tinygemm_kernel
\* lut512 without the shift to [-8, 7]
lut512_unsigned == <<0, 1, 2, 3, 4, 5, 6, 7, 8, 9, 10, 11, 12, 13, 14, 15>>

\* lookup table of the AVX512 kernel; _mm512_set_ps lists element 15 first
lut512 == <<-8, -7, -6, -5, -4, -3, -2, -1, 0, 1, 2, 3, 4, 5, 6, 7>>

\* lookup table of convert_int4_to_float
lut == <<-8, -7, -6, -5, -4, -3, -2, -1, 0, 1, 2, 3, 4, 5, 6, 7>>

\* convert_int4_to_float with a lookup table of 0 .. 15
convert_int4_to_float_unbiased(a, is_even) ==
  IF is_even THEN BitAnd(a, 15) ELSE a \div 16

convert_int4_to_float(a, is_even) ==
  LET index == IF is_even THEN BitAnd(a, 15) ELSE a \div 16
  IN lut[index + 1]

\* idx1 of the AVX2 kernel (transpose of scale and zero)
idx1_avx2 == <<0, 2, 4, 6, 1, 3, 5, 7>>

\* offset to shift from range [0, 15] to [-8, 7]
offset_avx2 == -8

\* load_scale_and_zeros reading every group from the first row of the table
load_scale_and_zeros_first_group(isa, mem, t, c, kb) ==
  [scale |-> mem.S[t.S_ptr + c * 2],
   zero |-> mem.S[t.S_ptr + c * 2 + 1]
            + (IF isa = "avx2" THEN mem.S[t.S_ptr + c * 2] * (-8) ELSE 0)]

\* load_scale_and_zeros with rows of the table BLOCK_N * 2 apart
load_scale_and_zeros_tile_stride(isa, mem, t, c, kb) ==
  [scale |-> mem.S[t.S_ptr + kb * t.BLOCK_N * 2 + c * 2],
   zero |-> mem.S[t.S_ptr + kb * t.BLOCK_N * 2 + c * 2 + 1]
            + (IF isa = "avx2"
               THEN mem.S[t.S_ptr + kb * t.BLOCK_N * 2 + c * 2] * (-8)
               ELSE 0)]

\* load_scale_and_zeros(i, _kb), lane `lane` of scale[i] and zero[i]
load_scale_and_zeros(isa, mem, t, c, kb) ==
  IF isa = "avx512" THEN
    LET i == c \div 16
        lane == c % 16
        base == t.S_ptr + kb * t.ldc * 2 + 32 * i
    IN [scale |-> mem.S[base + 2 * lane], zero |-> mem.S[base + 2 * lane + 1]]
  ELSE IF isa = "avx2" THEN
    LET i == c \div 8
        lane == c % 8
        base == t.S_ptr + kb * t.ldc * 2 + 16 * i
        half == IF lane < 4 THEN 0 ELSE 8
        scale == mem.S[base + half + idx1_avx2[(lane % 4) + 1]]
        zero == mem.S[base + half + idx1_avx2[(lane % 4) + 5]]
    IN [scale |-> scale, zero |-> scale * offset_avx2 + zero]
  ELSE
    [scale |-> mem.S[t.S_ptr + kb * t.ldc * 2 + c * 2],
     zero |-> mem.S[t.S_ptr + kb * t.ldc * 2 + c * 2 + 1]]

\* the raw value the kernel unpacks for column c of the tile at index k
\* (vb before the fused multiply-add with scale and zero)
unpack(isa, B, t, c, k) ==
  IF isa = "avx512" THEN
    LET COLS == t.BLOCK_N \div 16
        col == c \div 16
        lane == c % 16
    IN IF COLS = 4 THEN
         LET b == B[t.B_ptr + k * t.ldb + (col % 2) * 16 + lane]
             index == IF col < 2 THEN b ELSE b \div 16
         IN lut512[(index % 16) + 1]
       ELSE
         LET b == B[t.B_ptr + k * t.ldb + col * 8 + lane \div 2]
             index == IF lane % 2 = 0 THEN BitAnd(b, 15) ELSE b \div 16
         IN lut512[index + 1]
  ELSE IF isa = "avx2" THEN
    LET COLS == t.BLOCK_N \div 8
        col == c \div 8
        lane == c % 8
    IN IF COLS = 4 THEN
         LET b == B[t.B_ptr + k * t.ldb + (col % 2) * 8 + lane]
         IN IF col < 2 THEN BitAnd(b, 15) ELSE b \div 16
       ELSE
         LET col0 == col - (col % 2)
             nib == (col % 2) * 8 + lane
             b == B[t.B_ptr + k * t.ldb + col0 * 4 + nib \div 2]
         IN IF nib % 2 = 0 THEN BitAnd(b, 15) ELSE b \div 16
  ELSE
    convert_int4_to_float(B[t.B_ptr + k * t.ldb + c \div 2], c % 2 = 0)

\* the group index kb in use at reduction index k.  The vectorized kernels
\* run `if (is_block_start(k, BLOCK_K)) load_scale_and_zeros(i, kb++)`, so kb
\* is the number of block starts in 0..k less one; the non-vectorized kernel
\* computes kb = k / BLOCK_K
kb_at(isa, t, k) ==
  IF isa = "ref" THEN k \div t.BLOCK_K
  ELSE Cardinality({j \in 0..k : is_block_start(j, t.BLOCK_K)}) - 1

\* the dequantized weight of column c at index k, with the scale and zero
\* loaded for group kb: vb = fmadd(vb, scale, zero)
dequant(isa, mem, t, c, k, kb) ==
  LET sz == load_scale_and_zeros(isa, mem, t, c, kb)
  IN unpack(isa, mem.B, t, c, k) * sz.scale + sz.zero

\* vb of every column c and index k of the tile, at position c * K + k + 1
\* (computed once per k and shared by the rows of the tile)
dequant_tile(isa, mem, t) ==
  LET kbs == Stored([k \in 1..t.K |-> kb_at(isa, t, k - 1)])
  IN Stored([j \in 1..(t.BLOCK_N * t.K) |->
               dequant(isa, mem, t, (j - 1) \div t.K, (j - 1) % t.K,
                       kbs[((j - 1) % t.K) + 1])])

\* terms[lo] + .. + terms[hi]
RECURSIVE SumTerms(_, _, _)
SumTerms(terms, lo, hi) ==
  IF lo > hi THEN 0
  ELSE IF lo = hi THEN terms[lo]
  ELSE LET mid == (lo + hi) \div 2
       IN SumTerms(terms, lo, mid) + SumTerms(terms, mid + 1, hi)

\* accumulate with the reduction loop starting at k = 1
accumulate_from_one(mem, t, vb, row, c) ==
  SumTerms([k \in 1..t.K |->
              mem.A[t.A_ptr + row * t.lda + (k - 1)] * vb[c * t.K + k]],
           2, t.K)

\* accumulator of output element (row, c) of the tile after the K loop:
\* vc = fmadd(va, vb, vc) for k = 0 .. K - 1, starting from zero
accumulate(mem, t, vb, row, c) ==
  SumTerms([k \in 1..t.K |->
              mem.A[t.A_ptr + row * t.lda + (k - 1)] * vb[c * t.K + k]],
           1, t.K)

\* store_offset one tile width to the right
store_offset_next_block(isa, t, row, c) ==
  t.C_ptr + row * t.ldc + c + t.BLOCK_N

\* store_offset with every row stored at row 0 of the tile
store_offset_no_row(isa, t, row, c) == t.C_ptr + c

\* offset (from C_data) that storec / the final assignment writes (row, c) to
store_offset(isa, t, row, c) ==
  IF isa = "avx512" THEN
    IF t.BLOCK_N \div 16 = 4
    THEN t.C_ptr + row * t.ldc + (c \div 32) * 32 + (c % 32)
    ELSE t.C_ptr + row * t.ldc + (c \div 16) * 16 + (c % 16)
  ELSE IF isa = "avx2" THEN
    LET col == 2 * (c \div 16)
    IN t.C_ptr + row * t.ldc + col * 8 + (c % 16)
  ELSE t.C_ptr + row * t.ldc + c

\* tinygemm_kernel<BLOCK_M, BLOCK_N>: the stores into C of one tile, in
\* program order (rows outermost, as storec and the scalar loops run)
tinygemm_kernel(isa, mem, t) ==
  LET vb == dequant_tile(isa, mem, t)
  IN Stored([s \in 1..(t.BLOCK_M * t.BLOCK_N) |->
               LET row == (s - 1) \div t.BLOCK_N
                   c == (s - 1) % t.BLOCK_N
               IN [off |-> store_offset(isa, t, row, c),
                   val |-> cvtfp32_bf16(accumulate(mem, t, vb, row, c))]])

\* ------------------------------------------------------- int4pack_mm_kernel
MB_SIZES == {1, 2, 3, 4}
NB_SIZES == {16, 32, 48, 64}

\* MB with a row tile past the last row when BLOCK_M divides M
MBlocks_one_more(M_) == M_ \div BLOCK_M + 1

\* MB without the partial row tile
MBlocks_floor(M_) == M_ \div BLOCK_M

\* const int MB = (M + BLOCK_M - 1) / BLOCK_M;
MBlocks(M_) == (M_ + BLOCK_M - 1) \div BLOCK_M

\* tile with C_ptr = C_data + mb_start * N for every nb
tile_shared_columns(isa_, M_, N_, K_, BLOCK_K, mb, nb) ==
  LET mb_start == mb * BLOCK_M
      mb_size == Min(BLOCK_M, M_ - mb_start)
      nb_start == nb * BLOCK_N(isa_)
      nb_size == Min(BLOCK_N(isa_), N_ - nb_start)
  IN [mb |-> mb, nb |-> nb,
      A_ptr |-> mb_start * K_,
      B_ptr |-> (nb_start * K_) \div 2,
      S_ptr |-> nb_start * 2,
      C_ptr |-> mb_start * N_,
      lda |-> K_, ldb |-> nb_size \div 2, ldc |-> N_,
      K |-> K_, BLOCK_K |-> BLOCK_K,
      BLOCK_M |-> mb_size, BLOCK_N |-> nb_size]

\* tile with B_ptr = B_data for every nb
tile_first_block(isa_, M_, N_, K_, BLOCK_K, mb, nb) ==
  LET mb_start == mb * BLOCK_M
      mb_size == Min(BLOCK_M, M_ - mb_start)
      nb_start == nb * BLOCK_N(isa_)
      nb_size == Min(BLOCK_N(isa_), N_ - nb_start)
  IN [mb |-> mb, nb |-> nb,
      A_ptr |-> mb_start * K_,
      B_ptr |-> 0,
      S_ptr |-> nb_start * 2,
      C_ptr |-> mb_start * N_ + nb_start,
      lda |-> K_, ldb |-> nb_size \div 2, ldc |-> N_,
      K |-> K_, BLOCK_K |-> BLOCK_K,
      BLOCK_M |-> mb_size, BLOCK_N |-> nb_size]

\* tile with C_ptr = C_data + nb_start for every mb
tile_shared_rows(isa_, M_, N_, K_, BLOCK_K, mb, nb) ==
  LET mb_start == mb * BLOCK_M
      mb_size == Min(BLOCK_M, M_ - mb_start)
      nb_start == nb * BLOCK_N(isa_)
      nb_size == Min(BLOCK_N(isa_), N_ - nb_start)
  IN [mb |-> mb, nb |-> nb,
      A_ptr |-> mb_start * K_,
      B_ptr |-> (nb_start * K_) \div 2,
      S_ptr |-> nb_start * 2,
      C_ptr |-> nb_start,
      lda |-> K_, ldb |-> nb_size \div 2, ldc |-> N_,
      K |-> K_, BLOCK_K |-> BLOCK_K,
      BLOCK_M |-> mb_size, BLOCK_N |-> nb_size]

\* pointers and leading dimensions of tile (mb, nb), as LAUNCH_TINYGEMM_KERNEL
\* passes them: (A_ptr, B_ptr, S_ptr, C_ptr, K, NB_SIZE / 2, N, K, BLOCK_K)
tile(isa_, M_, N_, K_, BLOCK_K, mb, nb) ==
  LET mb_start == mb * BLOCK_M
      mb_size == Min(BLOCK_M, M_ - mb_start)
      nb_start == nb * BLOCK_N(isa_)
      nb_size == Min(BLOCK_N(isa_), N_ - nb_start)
  IN [mb |-> mb, nb |-> nb,
      A_ptr |-> mb_start * K_,
      B_ptr |-> (nb_start * K_) \div 2,
      S_ptr |-> nb_start * 2,
      C_ptr |-> mb_start * N_ + nb_start,
      lda |-> K_, ldb |-> nb_size \div 2, ldc |-> N_,
      K |-> K_, BLOCK_K |-> BLOCK_K,
      BLOCK_M |-> mb_size, BLOCK_N |-> nb_size]

\* launch with `default: break;` in both switches
launch_silent(isa_, mem, t) ==
  IF t.BLOCK_M \in MB_SIZES /\ t.BLOCK_N \in NB_SIZES
  THEN [kernel |-> TRUE, error |-> <<>>,
        stores |-> tinygemm_kernel(isa_, mem, t)]
  ELSE [kernel |-> FALSE, error |-> <<>>, stores |-> <<>>]

\* switch (mb_size) { case 1..4: LAUNCH_TINYGEMM_NB_SIZE(..) default: TORCH_CHECK }
launch(isa_, mem, t) ==
  IF t.BLOCK_M \in MB_SIZES THEN
    IF t.BLOCK_N \in NB_SIZES
    THEN [kernel |-> TRUE, error |-> <<>>,
          stores |-> tinygemm_kernel(isa_, mem, t)]
    ELSE [kernel |-> FALSE,
          error |-> <<"Unsupported n block size: ", t.BLOCK_N>>,
          stores |-> <<>>]
  ELSE [kernel |-> FALSE,
        error |-> <<"Unsupported m block size: ", t.BLOCK_M>>,
        stores |-> <<>>]

\* data_index_init(begin, mb, MB, nb, NB)
data_index_init(offset, MB, NB) ==
  [nb |-> offset % NB, mb |-> (offset \div NB) % MB]

\* data_index_step(mb, MB, nb, NB)
data_index_step(mb, MB, nb, NB) ==
  IF nb + 1 = NB
  THEN [nb |-> 0, mb |-> IF mb + 1 = MB THEN 0 ELSE mb + 1]
  ELSE [nb |-> nb + 1, mb |-> mb]

\* at::parallel_for(begin, end, 0, f) on T threads: thread tid runs
\* f(begin_tid, min(end, begin_tid + chunk_size)) when begin_tid < end
chunk_size(begin, end, T) == (end - begin + T - 1) \div T

chunk_begin(begin, end, T, tid) == begin + tid * chunk_size(begin, end, T)

chunk_end(begin, end, T, tid) ==
  Min(end, chunk_begin(begin, end, T, tid) + chunk_size(begin, end, T))

\* the threads of a parallel_for that are given a chunk
chunk_threads(begin, end, T) ==
  { tid \in 0..(T - 1) : chunk_begin(begin, end, T, tid) < end }

\* ------------------------------------------------------------------ state
VARIABLES
  isa,            \* the kernel variant compiled into this build
  M, N, K,        \* A is M x K, weight is N x K
  qGroupSize,     \* reduction indices per (scale, zero) pair
  weight,         \* int32 weight, N x K row-major
  A,              \* activation, M x K row-major
  ScaleAndZeros,  \* {K / qGroupSize, N, 2}
  weight_packed,  \* N * K / 2 bytes
  C,              \* output, M x N row-major
  phase,          \* "start", "packing", "packed", "running", "done"
  workers,        \* the chunks of the parallel_for in progress
  err,            \* the exception the int4pack_mm call ends with, <<>> if none
  writers,        \* per element of C: the tiles that stored to it in this call
  outside,        \* offsets stored to in this call that lie outside C
  dispatched,     \* the tiles this call reached, and what was done with each
  run,            \* 1 for the first int4pack_mm call, 2 for the repeated one
  Cprev,          \* what the first call left in C
  errprev,        \* the exception the first call ended with
  writersprev,    \* writers at the end of the first call
  pk,             \* what weight_to_int4pack has read and stored so far
  tk,             \* the reduction loop of one output element, step by step
  other,          \* a second int4pack_mm call running at the same time
  dq,             \* one nibble dequantized by each of the unpack strategies
  wreg,           \* WorkRegistry: registry_, lock_ and the calling threads
  fpm,            \* fpmath_mode.cpp: default_fpmath and the calling threads
  atm             \* atomic_add: the value at addr and the calling threads

inputs == <<isa, M, N, K, qGroupSize, weight, A, ScaleAndZeros>>

vars == <<isa, M, N, K, qGroupSize, weight, A, ScaleAndZeros, weight_packed,
          C, phase, workers, err, writers, outside, dispatched, run, Cprev,
          errprev, writersprev, pk, tk, other, dq, wreg, fpm, atm>>

\* the variables only the packer log, the stepwise kernel, the second call
\* and the unpack comparison change
aux == <<pk, tk, other, dq>>

\* the state of the other translation units
ext == <<wreg, fpm, atm>>

\* the state of int4mm_kernel.cpp
mm == <<inputs, weight_packed, C, phase, workers, err, writers, outside,
        dispatched, run, Cprev, errprev, writersprev, aux>>

\* ------------------------------------------------------------------ inputs
GroupSizes == {2, 4}

WeightKinds == {"nibble", "signed"}

\* weight values: "nibble" spans [0, 15], "signed" spans [-8, 7]; columns
\* 8, 16, 32 and 48 apart hold different values
WeightValue(kind, n, k) ==
  IF kind = "nibble" THEN (5 * n + 3 * (n \div 16) + 3 * k + 1) % 16
  ELSE ((3 * n + 5 * (n \div 16) + k) % 16) - 8

ActivationValue(m, k) == 40 * m + 3 * k - 7

ScaleValue(kb, n) == 1 + ((n + kb) % 3)

ZeroValue(kb, n) == ((n + 2 * kb) % 5) - 2

\* contents of the uninitialized output buffer before call number r
Junk(r) == IF r = 1 THEN 99 ELSE -77

\* the tensors, sizes and loop state of int4mm_kernel.cpp before any call
Tensors(M_, N_, K_, gs, w, a, sz) ==
  /\ M = M_ /\ N = N_ /\ K = K_ /\ qGroupSize = gs
  /\ weight = [o \in 0..(N_ * K_ - 1) |-> w[o \div K_, o % K_]]
  /\ A = [o \in 0..(M_ * K_ - 1) |-> a[o \div K_, o % K_]]
  /\ ScaleAndZeros =
       [o \in 0..((K_ \div gs) * N_ * 2 - 1) |->
          sz[(o \div 2) \div N_, (o \div 2) % N_, o % 2]]
  /\ weight_packed = [o \in 0..((N_ * K_) \div 2 - 1) |-> 255]
  /\ C = [o \in 0..(M_ * N_ - 1) |-> Junk(1)]
  /\ phase = "start"
  /\ workers = <<>>
  /\ err = <<>>
  /\ writers = [o \in 0..(M_ * N_ - 1) |-> <<>>]
  /\ outside = {}
  /\ dispatched = {}
  /\ run = 1
  /\ Cprev = <<>>
  /\ errprev = <<>>
  /\ writersprev = <<>>
  /\ pk = [reads |-> {}, outside |-> {},
           stored |-> [o \in 0..((N_ * K_) \div 2 - 1) |-> 0]]
  /\ tk = <<>>
  /\ other = <<>>
  /\ dq = <<>>

\* the same, with none of the other translation units in use
Buffers(M_, N_, K_, gs, w, a, sz) ==
  /\ Tensors(M_, N_, K_, gs, w, a, sz)
  /\ wreg = <<>>
  /\ fpm = <<>>
  /\ atm = <<>>

\* no tensor of int4mm_kernel.cpp is in use
NoTensors ==
  /\ isa = "ref"
  /\ Tensors(0, 2, 1, 1, [n \in 0..1, k \in 0..0 |-> 0], <<>>,
             [kb \in 0..0, n \in 0..1, j \in 0..1 |-> 1 - j])

\* every shape with at most one full block of columns and a tail
Init ==
  /\ isa \in ISAs
  /\ \E M_ \in 0..MaxM, u \in 1..MaxNUnits, gs \in GroupSizes,
        g \in 1..MaxKGroups, kind \in WeightKinds :
       /\ 8 * u <= BLOCK_N(isa) + 8 * MaxTailUnits
       /\ gs * g <= MaxK
       /\ Buffers(M_, 8 * u, gs * g, gs,
                  [n \in 0..(8 * u - 1), k \in 0..(gs * g - 1) |->
                     WeightValue(kind, n, k)],
                  [m \in 0..(M_ - 1), k \in 0..(gs * g - 1) |->
                     ActivationValue(m, k)],
                  [kb \in 0..(g - 1), n \in 0..(8 * u - 1), j \in 0..1 |->
                     IF j = 0 THEN ScaleValue(kb, n) ELSE ZeroValue(kb, n)])

\* activation row number a of the concrete scenarios; row 0 is all ones
ScenarioActivation(a, k) == IF a = 0 THEN 1 ELSE ((a * k) % 7) - 3

\* M=1, N=16, K=32, group_size=32, constant weight 0 or 7, scale 1, zero 0
InitScenario ==
  /\ isa \in ISAs
  /\ \E w \in {0, 7}, a \in 0..MaxAPat :
       Buffers(1, 16, 32, 32,
               [n \in 0..15, k \in 0..31 |-> w],
               [m \in 0..0, k \in 0..31 |-> ScenarioActivation(a, k)],
               [kb \in 0..0, n \in 0..15, j \in 0..1 |->
                  IF j = 0 THEN 1 ELSE 0])

\* ------------------------------------------------ weight_to_int4pack_kernel
\* at::parallel_for(0, NB, 0, ...) starts
PackBegin ==
  /\ phase = "start"
  /\ \E T \in 1..MaxThreads :
       workers' = [tid \in chunk_threads(0, NBlocks(isa, N), T) |->
                     [i |-> chunk_begin(0, NBlocks(isa, N), T, tid),
                      end |-> chunk_end(0, NBlocks(isa, N), T, tid),
                      mb |-> 0, nb |-> 0, threw |-> FALSE]]
  /\ phase' = "packing"
  /\ UNCHANGED <<inputs, weight_packed, C, err, writers, outside, dispatched,
                 run, Cprev, errprev, writersprev, aux, ext>>

\* what src[off] yields: the weight, or oob when off lies past the matrix
SrcMemory(oob) ==
  IF N % 2 = 0 THEN weight
  ELSE [o \in 0..((N + 1) * K - 1) |->
          IF o \in DOMAIN weight THEN weight[o] ELSE oob]

\* the values a read past the end of the weight matrix may yield
OobWeights == IF N % 2 = 0 THEN {0} ELSE {0, 15}

\* pk after one store
PackLogOne(log, s) ==
  [reads |-> log.reads \cup s.reads,
   outside |-> IF s.off \in DOMAIN log.stored THEN log.outside
               ELSE log.outside \cup {s.off},
   stored |-> IF s.off \in DOMAIN log.stored
              THEN [log.stored EXCEPT ![s.off] = @ + 1]
              ELSE log.stored]

\* pk after stores[lo..hi]
RECURSIVE PackLog(_, _, _, _)
PackLog(log, stores, lo, hi) ==
  IF lo > hi THEN log
  ELSE IF lo = hi THEN PackLogOne(log, stores[lo])
  ELSE LET mid == (lo + hi) \div 2
           left == PackLog(log, stores, lo, mid)
       IN After(left, PackLog(left, stores, mid + 1, hi))

\* PackBlock with every iteration packing N-block 0
PackBlock_first_block(tid) ==
  /\ phase = "packing"
  /\ workers[tid].i < workers[tid].end
  /\ \E oob \in OobWeights :
       LET stores == PackStores(isa, SrcMemory(oob), N, K, 0)
           inside == SelectSeq(stores,
                               LAMBDA s : s.off \in DOMAIN weight_packed)
       IN /\ weight_packed' =
               ApplyStores(weight_packed, inside, 1, Len(inside))
          /\ pk' = PackLog(pk, stores, 1, Len(stores))
  /\ workers' = [workers EXCEPT ![tid].i = @ + 1]
  /\ UNCHANGED <<inputs, C, phase, err, writers, outside, dispatched, run,
                 Cprev, errprev, writersprev, tk, other, dq, ext>>

\* one iteration of the loop over the N-blocks [begin, end) of a thread
PackBlock(tid) ==
  /\ phase = "packing"
  /\ workers[tid].i < workers[tid].end
  /\ \E oob \in OobWeights :
       LET stores == PackStores(isa, SrcMemory(oob), N, K, workers[tid].i)
           inside == SelectSeq(stores,
                               LAMBDA s : s.off \in DOMAIN weight_packed)
       IN /\ weight_packed' =
               ApplyStores(weight_packed, inside, 1, Len(inside))
          /\ pk' = PackLog(pk, stores, 1, Len(stores))
  /\ workers' = [workers EXCEPT ![tid].i = @ + 1]
  /\ UNCHANGED <<inputs, C, phase, err, writers, outside, dispatched, run,
                 Cprev, errprev, writersprev, tk, other, dq, ext>>

\* the parallel_for joins its threads and weight_to_int4pack returns
PackEnd ==
  /\ phase = "packing"
  /\ \A tid \in DOMAIN workers : workers[tid].i = workers[tid].end
  /\ phase' = "packed"
  /\ workers' = <<>>
  /\ UNCHANGED <<inputs, weight_packed, C, err, writers, outside, dispatched,
                 run, Cprev, errprev, writersprev, aux, ext>>

\* ------------------------------------------------------- int4pack_mm_kernel
Memory == [A |-> A, B |-> weight_packed, S |-> ScaleAndZeros]

\* C, writers and outside after one store of tile id
StoreOne(st, store, id) ==
  IF store.off \in DOMAIN st.C
  THEN [C |-> [st.C EXCEPT ![store.off] = store.val],
        writers |-> [st.writers EXCEPT ![store.off] = Append(@, id)],
        outside |-> st.outside]
  ELSE [C |-> st.C, writers |-> st.writers,
        outside |-> st.outside \cup {store.off}]

\* C, writers and outside after stores[lo..hi] of tile id, applied in order
RECURSIVE StoreTile(_, _, _, _, _)
StoreTile(st, stores, lo, hi, id) ==
  IF lo > hi THEN st
  ELSE IF lo = hi THEN StoreOne(st, stores[lo], id)
  ELSE LET mid == (lo + hi) \div 2
           left == StoreTile(st, stores, lo, mid, id)
       IN After(left, StoreTile(left, stores, mid + 1, hi, id))

\* MMBegin with every thread starting at tile (0, 0)
MMBegin_no_index_init ==
  /\ phase = "packed"
  /\ \E T \in 1..MaxThreads :
       LET MB == MBlocks(M)
           NB == NBlocks(isa, N)
       IN workers' =
            [tid \in chunk_threads(0, MB * NB, T) |->
               [i |-> chunk_begin(0, MB * NB, T, tid),
                end |-> chunk_end(0, MB * NB, T, tid),
                mb |-> 0, nb |-> 0, threw |-> FALSE]]
  /\ phase' = "running"
  /\ UNCHANGED <<inputs, weight_packed, C, err, writers, outside, dispatched,
                 run, Cprev, errprev, writersprev, aux, ext>>

\* at::parallel_for(0, MB * NB, 0, ...) starts; each thread runs
\* data_index_init(begin, mb, MB, nb, NB) for its own begin
MMBegin ==
  /\ phase = "packed"
  /\ \E T \in 1..MaxThreads :
       LET MB == MBlocks(M)
           NB == NBlocks(isa, N)
       IN workers' =
            [tid \in chunk_threads(0, MB * NB, T) |->
               LET begin == chunk_begin(0, MB * NB, T, tid)
                   idx == data_index_init(begin, MB, NB)
               IN [i |-> begin, end |-> chunk_end(0, MB * NB, T, tid),
                   mb |-> idx.mb, nb |-> idx.nb, threw |-> FALSE]]
  /\ phase' = "running"
  /\ UNCHANGED <<inputs, weight_packed, C, err, writers, outside, dispatched,
                 run, Cprev, errprev, writersprev, aux, ext>>

\* one iteration of the loop over the tiles [begin, end) of a thread
TileStep(tid) ==
  /\ phase = "running"
  /\ workers[tid].i < workers[tid].end
  /\ ~workers[tid].threw
  /\ LET w == workers[tid]
         t == tile(isa, M, N, K, qGroupSize, w.mb, w.nb)
         r == launch(isa, Memory, t)
         st == StoreTile([C |-> C, writers |-> writers, outside |-> outside],
                         r.stores, 1, Len(r.stores), <<w.mb, w.nb>>)
         nxt == data_index_step(w.mb, MBlocks(M), w.nb, NBlocks(isa, N))
     IN /\ dispatched' = dispatched \cup
             {[mb |-> w.mb, nb |-> w.nb, mb_size |-> t.BLOCK_M,
               nb_size |-> t.BLOCK_N, kernel |-> r.kernel,
               error |-> r.error]}
        /\ IF r.kernel THEN
             /\ C' = st.C
             /\ writers' = st.writers
             /\ outside' = st.outside
             /\ err' = err
             /\ workers' = [workers EXCEPT ![tid].i = @ + 1,
                                           ![tid].mb = nxt.mb,
                                           ![tid].nb = nxt.nb]
           ELSE
             /\ workers' = [workers EXCEPT ![tid].threw = TRUE]
             /\ err' = IF err = <<>> THEN r.error ELSE err
             /\ UNCHANGED <<C, writers, outside, ext>>
  /\ UNCHANGED <<inputs, weight_packed, phase, run, Cprev, errprev, writersprev,
                 aux, ext>>

\* the parallel_for joins its threads; a captured exception is rethrown
MMEnd ==
  /\ phase = "running"
  /\ \A tid \in DOMAIN workers :
       workers[tid].i = workers[tid].end \/ workers[tid].threw
  /\ phase' = "done"
  /\ workers' = <<>>
  /\ UNCHANGED <<inputs, weight_packed, C, err, writers, outside, dispatched,
                 run, Cprev, errprev, writersprev, aux, ext>>

\* the caller invokes int4pack_mm again with the same inputs and a fresh output
Reinvoke ==
  /\ phase = "done"
  /\ run = 1
  /\ run' = 2
  /\ Cprev' = C
  /\ errprev' = err
  /\ writersprev' = writers
  /\ C' = [o \in DOMAIN C |-> Junk(2)]
  /\ err' = <<>>
  /\ writers' = [o \in DOMAIN C |-> <<>>]
  /\ outside' = {}
  /\ dispatched' = {}
  /\ phase' = "packed"
  /\ UNCHANGED <<inputs, weight_packed, workers, aux, ext>>

Next ==
  \/ PackBegin
  \/ \E tid \in DOMAIN workers : PackBlock(tid)
  \/ PackEnd
  \/ MMBegin
  \/ \E tid \in DOMAIN workers : TileStep(tid)
  \/ MMEnd
  \/ Reinvoke

Spec == Init /\ [][Next]_vars

SpecScenario == InitScenario /\ [][Next]_vars

\* ------------------------------------------------------------------ claims
Succeeded == phase = "done" /\ err = <<>>

NibbleWeights == \A o \in DOMAIN weight : weight[o] \in 0..15

SignedWeights == \A o \in DOMAIN weight : weight[o] \in -8..7

\* the naive triple loop for C[m, n], with every weight value lowered by bias
Reference(m, n, bias) ==
  SumTerms([k \in 1..K |->
              A[m * K + (k - 1)]
              * ((weight[n * K + (k - 1)] - bias)
                   * ScaleAndZeros[((k - 1) \div qGroupSize) * N * 2 + n * 2]
                 + ScaleAndZeros[((k - 1) \div qGroupSize) * N * 2 + n * 2 + 1])],
           1, K)

Unpacked(n, k) ==
  LET t == tile(isa, M, N, K, qGroupSize, 0, n \div BLOCK_N(isa))
      unit == [A |-> A, B |-> weight_packed,
               S |-> [o \in DOMAIN ScaleAndZeros |-> IF o % 2 = 0 THEN 1 ELSE 0]]
  IN dequant(isa, unit, t, n % BLOCK_N(isa), k, kb_at(isa, t, k))

\* the columns that lie in a block of a supported width
SupportedColumns ==
  {n \in 0..(N - 1) :
     Min(BLOCK_N(isa), N - (n \div BLOCK_N(isa)) * BLOCK_N(isa)) \in NB_SIZES}

Packed == phase = "packed" /\ run = 1

\* C2 as stated: for weight values in [-8, 7], unpacking the packed buffer
\* through the kernel's dequantization step with scale = 1 and zero = 0
\* yields W[n, k] for every column n and index k.
C2_RoundTrip ==
  (Packed /\ SignedWeights) =>
    \A n \in SupportedColumns, k \in 0..(K - 1) :
      Unpacked(n, k) = weight[n * K + k]

\* C2 amended: for weight values in [0, 15], unpacking the packed buffer
\* through the kernel's dequantization step with scale = 1 and zero = 0
\* yields W[n, k] - 8 for every column n and index k.
C2_RoundTripBiased ==
  (Packed /\ NibbleWeights) =>
    \A n \in SupportedColumns, k \in 0..(K - 1) :
      Unpacked(n, k) = weight[n * K + k] - 8

\* a full block and a tail block of supported width have been packed and
\* the last column unpacks to its weight less 8
C2_Witness ==
  /\ Packed /\ NibbleWeights
  /\ N > BLOCK_N(isa) /\ N % 16 = 0 /\ isa # "ref"
  /\ Unpacked(N - 1, K - 1) = weight[(N - 1) * K + (K - 1)] - 8
  /\ Unpacked(0, 0) = weight[0] - 8

ZeroWeights == \A o \in DOMAIN weight : weight[o] = 0

SevenWeights == \A o \in DOMAIN weight : weight[o] = 7

OnesActivation == \A o \in DOMAIN A : A[o] = 1

\* C3 as stated: in the zeros scenario every one of the 16 outputs is 0,
\* whatever the activation values are.
C3_ZerosScenario ==
  (Succeeded /\ ZeroWeights) => \A n \in 0..15 : C[n] = 0

\* C3 amended: in the zeros scenario every one of the 16 outputs is
\* -8 * sum_k A[0, k], narrowed to the output type: the stored nibble 0
\* dequantizes to -8.
C3_ZerosScenarioBiased ==
  (Succeeded /\ ZeroWeights) =>
    \A n \in 0..15 :
      C[n] = cvtfp32_bf16(-8 * SumTerms([k \in 1..K |-> A[k - 1]], 1, K))

\* the zeros scenario has run with the all-ones activation and left -256
C3_Witness ==
  Succeeded /\ ZeroWeights /\ OnesActivation /\ C[15] = -256 /\ run = 2

\* C4 as stated: in the sevens scenario with all-ones activation every one
\* of the 16 outputs is 7 * 32 = 224.
C4_SevensScenario ==
  (Succeeded /\ SevenWeights /\ OnesActivation) => \A n \in 0..15 : C[n] = 224

\* C4 amended: in the sevens scenario with all-ones activation every one of
\* the 16 outputs is (7 - 8) * 32 = -32.
C4_SevensScenarioBiased ==
  (Succeeded /\ SevenWeights /\ OnesActivation) => \A n \in 0..15 : C[n] = -32

\* the sevens scenario has run with the all-ones activation
C4_Witness ==
  Succeeded /\ SevenWeights /\ OnesActivation /\ C[0] = -32 /\ run = 1

\* ------------------------------------------------- the zero-padded problem
PaddedM == MBlocks(M) * BLOCK_M

PaddedN == NBlocks(isa, N) * BLOCK_N(isa)

\* A, W and the scale/zero table padded with zeros to PaddedM and PaddedN,
\* and W packed again
PaddedMemory ==
  [A |-> [o \in 0..(PaddedM * K - 1) |-> IF o \div K < M THEN A[o] ELSE 0],
   B |-> weight_to_int4pack(
           isa,
           [o \in 0..(PaddedN * K - 1) |-> IF o \div K < N THEN weight[o] ELSE 0],
           PaddedN, K),
   S |-> [o \in 0..((K \div qGroupSize) * PaddedN * 2 - 1) |->
            LET kb == (o \div 2) \div PaddedN
                n == (o \div 2) % PaddedN
            IN IF n < N THEN ScaleAndZeros[kb * N * 2 + n * 2 + (o % 2)]
               ELSE 0]]

\* the tiles of the grid
Tiles == (0..(MBlocks(M) - 1)) \X (0..(NBlocks(isa, N) - 1))

\* tile id = <<mb, nb>> has fewer than BLOCK_M rows or BLOCK_N columns
Boundary(id) ==
  LET t == tile(isa, M, N, K, qGroupSize, id[1], id[2])
  IN t.BLOCK_M < BLOCK_M \/ t.BLOCK_N < BLOCK_N(isa)

\* the value the call on the zero-padded problem stores for tile id at
\* (row, c), and where it stores it
PaddedValue(pm, id, row, c) ==
  LET pt == tile(isa, PaddedM, PaddedN, K, qGroupSize, id[1], id[2])
      vb == dequant_tile(isa, pm, pt)
  IN [offset |-> store_offset(isa, pt, row, c),
      value |-> cvtfp32_bf16(accumulate(pm, pt, vb, row, c))]

\* every value a boundary tile has written to C[m, n] is the value the call
\* on the zero-padded problem stores at [m, n] of its output
BoundaryTilesMatchPadded ==
  LET pm == PaddedMemory
  IN \A id \in {b \in Tiles : Boundary(b)} :
       LET t == tile(isa, M, N, K, qGroupSize, id[1], id[2])
       IN \A row \in 0..(t.BLOCK_M - 1), c \in 0..(t.BLOCK_N - 1) :
            LET m == id[1] * BLOCK_M + row
                n == id[2] * BLOCK_N(isa) + c
                p == PaddedValue(pm, id, row, c)
            IN /\ p.offset = m * PaddedN + n
               /\ writers[m * N + n] # <<>> => C[m * N + n] = p.value

\* C5 as stated: for weight values in [-8, 7] as for any others, the values
\* written on the boundary tiles are those of the zero-padded problem (M and
\* N rounded up to full tiles, W packed again), truncated to M x N.
C5_TileBoundaryConsistency ==
  (phase = "done" /\ run = 1) => BoundaryTilesMatchPadded

\* C5 amended: for weight values in [0, 15], the values written on the
\* boundary tiles are those of the zero-padded problem (M and N rounded up
\* to full tiles, W packed again), truncated to M x N.
C5_TileBoundaryConsistencyNibble ==
  (phase = "done" /\ run = 1 /\ NibbleWeights) => BoundaryTilesMatchPadded

\* a call whose last row tile and last column tile are both partial has
\* written its corner element
C5_Witness ==
  /\ phase = "done" /\ run = 1 /\ NibbleWeights
  /\ M > BLOCK_M /\ M % BLOCK_M # 0
  /\ N > BLOCK_N(isa) /\ N % BLOCK_N(isa) # 0
  /\ K > qGroupSize
  /\ writers[M * N - 1] = <<<<MBlocks(M) - 1, NBlocks(isa, N) - 1>>>>
  /\ C[M * N - 1] # Junk(1)

\* ------------------------------------------------------------ determinism
\* C6 as stated: the second of two calls with identical inputs leaves, in
\* every element either call has written, what the first call left there,
\* for every number of threads and every interleaving.
C6_Determinism ==
  (phase = "done" /\ run = 2) =>
    \A o \in DOMAIN C :
      (writers[o] # <<>> \/ writersprev[o] # <<>>) => C[o] = Cprev[o]

\* C6 amended: two calls with identical inputs end the same way, for every
\* number of threads and every interleaving: both raise the same
\* unsupported-shape error, or both return and leave identical contents in C.
C6_DeterminismOfOutcome ==
  (phase = "done" /\ run = 2) =>
    /\ err = errprev
    /\ err = <<>> => C = Cprev

\* both calls have returned after writing every element of a grid of two
\* row tiles and two column tiles
C6_Witness ==
  /\ phase = "done" /\ run = 2 /\ err = <<>> /\ errprev = <<>>
  /\ M > BLOCK_M /\ N > BLOCK_N(isa)
  /\ C = Cprev
  /\ \A o \in DOMAIN C : writers[o] # <<>>

\* --------------------------------------------------------------- additivity
\* C after one scheduler call processes the tiles i, .., end - 1 in order,
\* starting at tile idx, up to the first tile that raises
RECURSIVE RangeFrom(_, _, _, _, _)
RangeFrom(mem, i, end, idx, out) ==
  IF i >= end THEN out
  ELSE LET t == tile(isa, M, N, K, qGroupSize, idx.mb, idx.nb)
           r == launch(isa, mem, t)
           next == ApplyStores(out, r.stores, 1, Len(r.stores))
       IN IF ~r.kernel THEN out
          ELSE After(next,
                     RangeFrom(mem, i + 1, end,
                               data_index_step(idx.mb, MBlocks(M), idx.nb,
                                               NBlocks(isa, N)),
                               next))

\* C after processing the single range [0, MB * NB) on a fresh buffer
SingleRange ==
  IF MBlocks(M) = 0 THEN [o \in DOMAIN C |-> Junk(run)]
  ELSE RangeFrom(Memory, 0, MBlocks(M) * NBlocks(isa, N),
                 data_index_init(0, MBlocks(M), NBlocks(isa, N)),
                 [o \in DOMAIN C |-> Junk(run)])

\* every tile of the grid has a shape the dispatch supports
AllShapesSupported ==
  \A id \in Tiles :
    LET t == tile(isa, M, N, K, qGroupSize, id[1], id[2])
    IN t.BLOCK_M \in MB_SIZES /\ t.BLOCK_N \in NB_SIZES

\* the sub-ranges of the parallel_for have all ended
Joined ==
  /\ phase = "running"
  /\ \A tid \in DOMAIN workers :
       workers[tid].i = workers[tid].end \/ workers[tid].threw

C8_CoverageWriteOnce ==
  Succeeded =>
    /\ \A o \in DOMAIN C : Len(writers[o]) = 1
    /\ outside = {}
    /\ run = 2 => C = Cprev

\* the second call on a grid of two row tiles and two column tiles has
\* returned, having overwritten the contents C had before it
C8_Witness ==
  /\ Succeeded /\ run = 2
  /\ M > BLOCK_M /\ N > BLOCK_N(isa)
  /\ \A o \in DOMAIN C : Len(writers[o]) = 1 /\ C[o] # Junk(2)
  /\ C = Cprev

\* ------------------------------------------------------------ race freedom
\* C9: during a call and after it, in every interleaving, no element of C
\* has been written by two different tiles and no tile has stored outside
\* C (every store of a tile goes through C_ptr, so a store outside C is the
\* only way it could reach A, the packed weights or the scale/zero table);
\* the three input buffers are never changed by a tile.
C9_RaceFreedom ==
  /\ phase \in {"running", "done"} =>
       /\ \A o \in DOMAIN C :
            \A i \in 1..Len(writers[o]) : writers[o][i] = writers[o][1]
       /\ outside = {}
  /\ phase \in {"packed", "running", "done"} =>
       weight_packed = weight_to_int4pack(isa, weight, N, K)

\* two workers have each run a tile and neither has finished its sub-range
C9_Witness ==
  /\ phase = "running"
  /\ Cardinality(DOMAIN workers) = 2
  /\ Cardinality({d \in dispatched : d.kernel}) = 2
  /\ \A tid \in DOMAIN workers :
       /\ workers[tid].i < workers[tid].end
       /\ \E d \in dispatched :
            d.kernel /\ d.mb * NBlocks(isa, N) + d.nb = workers[tid].i - 1
  /\ outside = {}

\* ---------------------------------------------------------------- fail fast
\* C10: every tile the scheduler has reached whose nb_size is not in
\* {16, 32, 48, 64} or whose mb_size is not in {1, 2, 3, 4} raised an error
\* naming that size, tinygemm_kernel was not invoked for it and it wrote
\* nothing, and the call ends with such an error; tinygemm_kernel was only
\* invoked for shapes in {1,2,3,4} x {16,32,48,64}.
C10_FailFast ==
  /\ \A d \in dispatched :
       /\ d.kernel => d.mb_size \in MB_SIZES /\ d.nb_size \in NB_SIZES
       /\ d.mb_size \notin MB_SIZES =>
            /\ ~d.kernel
            /\ d.error = <<"Unsupported m block size: ", d.mb_size>>
       /\ (d.mb_size \in MB_SIZES /\ d.nb_size \notin NB_SIZES) =>
            /\ ~d.kernel
            /\ d.error = <<"Unsupported n block size: ", d.nb_size>>
       /\ ~d.kernel =>
            /\ err # <<>>
            /\ \E e \in dispatched : ~e.kernel /\ e.error = err
            /\ \A o \in DOMAIN C :
                 \A i \in 1..Len(writers[o]) : writers[o][i] # <<d.mb, d.nb>>
  /\ (phase = "done" /\ ~AllShapesSupported /\ M > 0) => err # <<>>

\* a call has ended with an unsupported-width error after the kernel ran on
\* another tile
C10_Witness ==
  /\ phase = "done"
  /\ err = <<"Unsupported n block size: ", N % BLOCK_N(isa)>>
  /\ \E d \in dispatched : d.kernel
  /\ \E d \in dispatched : ~d.kernel /\ d.nb_size \notin NB_SIZES


\* ------------------------------------------- output of a call that failed
\* the tile that owns offset o of C
TileOf(o) == <<(o \div N) \div BLOCK_M, (o % N) \div BLOCK_N(isa)>>

\* the dispatch rejects the shape of tile id
Rejected(id) ==
  LET t == tile(isa, M, N, K, qGroupSize, id[1], id[2])
  IN t.BLOCK_M \notin MB_SIZES \/ t.BLOCK_N \notin NB_SIZES

Failed == phase = "done" /\ err # <<>>

\* C11 as stated: after a call that ended with an unsupported-shape error,
\* C is what it was before the call.
C11_NoPartialOutput ==
  Failed => \A o \in DOMAIN C : C[o] = Junk(run) /\ writers[o] = <<>>

\* C11 amended: after a call that ended with an unsupported-shape error, the
\* elements of the rejected tiles are what they were before the call, and
\* every other element is either unchanged or has been written once, by its
\* own tile, which ran before the error.
C11_NoOutputOfRejectedTiles ==
  Failed =>
    \A o \in DOMAIN C :
      \/ C[o] = Junk(run) /\ writers[o] = <<>>
      \/ /\ ~Rejected(TileOf(o))
         /\ writers[o] = <<TileOf(o)>>
         /\ \E d \in dispatched :
              d.kernel /\ <<d.mb, d.nb>> = TileOf(o)

\* a call has ended with an error after a full tile was written next to a
\* rejected one
C11_Witness ==
  /\ Failed
  /\ \E o \in DOMAIN C : writers[o] = <<TileOf(o)>> /\ C[o] # Junk(run)
  /\ \E o \in DOMAIN C : Rejected(TileOf(o)) /\ C[o] = Junk(run)

\* ------------------------------------------------------ the packed layout
\* the N-blocks of the weight matrix
Blocks == 0..(NBlocks(isa, N) - 1)

\* columns in N-block i
BlockWidth(i) == Min(BLOCK_N(isa), N - i * BLOCK_N(isa))

\* N-block i is packed with the strided pairing
FullBlock(i) == isa # "ref" /\ BlockWidth(i) = BLOCK_N(isa)

\* byte j of row k of N-block i of the packed buffer
BlockByte(i, k, j) ==
  weight_packed[(i * K * BLOCK_N(isa)) \div 2 + (k * BlockWidth(i)) \div 2 + j]

\* the low four bits of W[n, k] for column n of N-block i
Lane(i, n, k) == weight[(i * BLOCK_N(isa) + n) * K + k] % 16

\* C14 as stated: every byte of a full-width block holds a column in its low
\* nibble and the column BLOCK_N / 4 further on in its high nibble.
C14_FullBlockPairing ==
  (Packed /\ NibbleWeights) =>
    \A i \in {b \in Blocks : FullBlock(b)}, k \in 0..(K - 1),
       j \in 0..(BLOCK_N(isa) \div 2 - 1) :
      \E n \in 0..(BLOCK_N(isa) - BLOCK_N(isa) \div 4 - 1) :
        /\ BlockByte(i, k, j) % 16 = Lane(i, n, k)
        /\ BlockByte(i, k, j) \div 16 = Lane(i, n + BLOCK_N(isa) \div 4, k)

\* C14 amended: for weight values in [0, 15], byte j of row k of a
\* full-width block of a vectorized variant holds column j in its low nibble
\* and column j + BLOCK_N / 2 in its high nibble (j with j + 32 when
\* BLOCK_N = 64, j with j + 16 when BLOCK_N = 32).
C14_FullBlockPairingHalf ==
  (Packed /\ NibbleWeights) =>
    \A i \in {b \in Blocks : FullBlock(b)}, k \in 0..(K - 1),
       j \in 0..(BLOCK_N(isa) \div 2 - 1) :
      /\ BlockByte(i, k, j) % 16 = Lane(i, j, k)
      /\ BlockByte(i, k, j) \div 16 = Lane(i, j + BLOCK_N(isa) \div 2, k)

\* a full-width block followed by a remainder block has been packed, and its
\* byte 0 of the last row pairs column 0 with column BLOCK_N / 2
C14_Witness ==
  /\ Packed /\ NibbleWeights /\ FullBlock(0) /\ N > BLOCK_N(isa) /\ K > 2
  /\ BlockByte(0, K - 1, 0) % 16 = Lane(0, 0, K - 1)
  /\ BlockByte(0, K - 1, 0) \div 16 = Lane(0, BLOCK_N(isa) \div 2, K - 1)
  /\ Lane(0, BLOCK_N(isa) \div 2, K - 1) # Lane(0, BLOCK_N(isa) \div 4, K - 1)

\* every byte of the blocks packed with the adjacent pairing holds column n
\* in its low nibble and column n + 1 in its high nibble
AdjacentPairing ==
  \A i \in {b \in Blocks : ~FullBlock(b)}, k \in 0..(K - 1) :
    \A n \in {c \in 0..(BlockWidth(i) - 1) : c % 2 = 0} :
      /\ BlockByte(i, k, n \div 2) % 16 = Lane(i, n, k)
      /\ BlockByte(i, k, n \div 2) \div 16 = Lane(i, n + 1, k)

\* C15 as stated: for weight values in [-8, 7] as for any others, in a block
\* with nb_size < BLOCK_N and in every block of the non-vectorized variant,
\* byte k * nb_size / 2 + n / 2 (n even) holds column n in its low nibble
\* and column n + 1 in its high nibble.
C15_RemainderPairing == Packed => AdjacentPairing

\* C15 amended: the same for weight values in [0, 15].
C15_RemainderPairingNibble == (Packed /\ NibbleWeights) => AdjacentPairing

\* a remainder block behind a full-width block has been packed, and the last
\* byte of its last row pairs the last two columns
C15_Witness ==
  /\ Packed /\ NibbleWeights /\ N > BLOCK_N(isa) /\ ~FullBlock(1) /\ K > 2
  /\ BlockByte(1, K - 1, BlockWidth(1) \div 2 - 1) % 16
       = Lane(1, BlockWidth(1) - 2, K - 1)
  /\ BlockByte(1, K - 1, BlockWidth(1) \div 2 - 1) \div 16
       = Lane(1, BlockWidth(1) - 1, K - 1)
  /\ Lane(1, BlockWidth(1) - 2, K - 1) # Lane(1, BlockWidth(1) - 1, K - 1)

\* -------------------------------------------------- scheduler index mapping
\* the MB x NB grid, MB = ceil(M / 4), NB = ceil(N / BLOCK_N)
Grid ==
  (0..((M + 3) \div 4 - 1))
    \X (0..((N + BLOCK_N(isa) - 1) \div BLOCK_N(isa) - 1))

\* every worker that has a tile to process holds the row-major coordinates
\* of its flat index, and every tile reached lies in the grid
RowMajorIndex ==
  /\ phase = "running" =>
       \A tid \in DOMAIN workers :
         LET w == workers[tid]
             NB == (N + BLOCK_N(isa) - 1) \div BLOCK_N(isa)
         IN w.i < w.end => w.mb = w.i \div NB /\ w.nb = w.i % NB
  /\ phase \in {"running", "done"} =>
       \A d \in dispatched : <<d.mb, d.nb>> \in Grid

\* every tile of the grid has been dispatched
AllDispatched == \A id \in Grid : \E d \in dispatched : <<d.mb, d.nb>> = id

\* C16 as stated: the tile at flat index i is (i div NB, i mod NB), stepping
\* carries from nb into mb, and over the whole call every tile of the grid
\* is dispatched exactly once.
C16_IndexMapping ==
  /\ RowMajorIndex
  /\ phase = "done" =>
       /\ AllDispatched
       /\ \A o \in DOMAIN C : ~Rejected(TileOf(o)) => writers[o] = <<TileOf(o)>>

\* C16 amended: the tile at flat index i is (i div NB, i mod NB), stepping
\* carries from nb into mb, no tile runs twice, and over a call that ends
\* without an error every tile of the grid is dispatched and runs exactly
\* once.
C16_IndexMappingOfReturningCall ==
  /\ RowMajorIndex
  /\ phase \in {"running", "done"} =>
       \A o \in DOMAIN C : writers[o] \in {<<>>, <<TileOf(o)>>}
  /\ (phase = "done" /\ err = <<>>) =>
       /\ AllDispatched
       /\ \A d \in dispatched : d.kernel
       /\ \A o \in DOMAIN C : writers[o] = <<TileOf(o)>>

\* a single worker on a grid of two by two tiles has stepped from (0, 1)
\* over the carry to (1, 0) and on to (1, 1)
C16_Witness ==
  /\ phase = "running" /\ err = <<>>
  /\ DOMAIN workers = {0}
  /\ workers[0].i = 3 /\ workers[0].end = 4
  /\ workers[0].mb = 1 /\ workers[0].nb = 1
  /\ {<<d.mb, d.nb>> : d \in dispatched} = {<<0, 0>>, <<0, 1>>, <<1, 0>>}

\* ---------------------------------------------- the packer on every shape
\* weight_to_int4pack on an N x K matrix for every N and K from 1 up; no
\* int4pack_mm call follows
InitPack ==
  /\ isa \in ISAs
  /\ \E N_ \in 1..MaxPackN, K_ \in 1..MaxPackK :
       Buffers(0, N_, K_, K_,
               [n \in 0..(N_ - 1), k \in 0..(K_ - 1) |->
                  WeightValue("nibble", n, k)],
               <<>>,
               [kb \in 0..0, n \in 0..(N_ - 1), j \in 0..1 |->
                  IF j = 0 THEN 1 ELSE 0])

NextPack ==
  \/ PackBegin
  \/ \E tid \in DOMAIN workers : PackBlock(tid)
  \/ PackEnd

SpecPack == InitPack /\ [][NextPack]_vars

\* the packer has raised no error, has read only elements of the weight
\* matrix, has stored only to bytes of the packed buffer, no byte twice, and
\* once it has returned every byte has been stored to
PackerInside ==
  /\ err = <<>>
  /\ pk.reads \subseteq 0..(N * K - 1)
  /\ pk.outside = {}
  /\ \A o \in DOMAIN pk.stored : pk.stored[o] <= 1
  /\ phase = "packed" =>
       /\ DOMAIN pk.stored = 0..((N * K) \div 2 - 1)
       /\ \A o \in DOMAIN pk.stored : pk.stored[o] = 1

\* C12 as stated: for every N >= 1 and K >= 1 the packer raises no error,
\* reads only weight elements (n, k) with n < N and k < K, and writes each
\* byte at the offsets [0, N * K / 2) exactly once and no other byte.
C12_PackerInBounds ==
  phase \in {"packing", "packed"} => PackerInside

\* C12 amended: the same for every even N >= 2 and every K >= 1.
C12_PackerInBoundsEvenN ==
  (phase \in {"packing", "packed"} /\ N % 2 = 0) => PackerInside

\* a matrix of a full block and a remainder block of two columns, with an
\* odd K, has been packed
C12_Witness ==
  /\ phase = "packed" /\ N = BLOCK_N(isa) + 2 /\ K = 3
  /\ pk.reads = 0..(N * K - 1)
  /\ \A o \in DOMAIN pk.stored : pk.stored[o] = 1
  /\ \A o \in DOMAIN weight_packed : weight_packed[o] # 255

\* ------------------------------------- the reduction loop, index by index
\* one tile of 16 columns and two rows, for every group size from 1 up that
\* divides K
InitKernel ==
  /\ isa \in ISAs
  /\ \E gs \in 1..MaxGroupSize, g \in 1..MaxKGroups :
       Buffers(2, 16, gs * g, gs,
               [n \in 0..15, k \in 0..(gs * g - 1) |->
                  WeightValue("nibble", n, k)],
               [m \in 0..1, k \in 0..(gs * g - 1) |-> ActivationValue(m, k)],
               [kb \in 0..(g - 1), n \in 0..15, j \in 0..1 |->
                  IF j = 0 THEN ScaleValue(kb, n) ELSE ZeroValue(kb, n)])

\* the values a read past the end of the scale/zero table may yield
OobScales == {0, 3}

\* kb++ without the increment
next_kb_same(kb) == kb

\* kb++
next_kb(kb) == kb + 1

\* fmadd that drops the accumulator
fmadd_no_acc(a, b, c) == a * b

\* _mm512_fmadd_ps(a, b, c), _mm256_fmadd_ps(a, b, c), c_val += a * b
fmadd(a, b, c) == a * b + c

\* loadc that starts the accumulator from the output element
loadc_from_C(Cmem, off) == Cmem[off]

\* loadc: vc = setzero, float c_val = 0; the output is not read
loadc(Cmem, off) == 0

\* tinygemm_kernel is entered for tile (0, 0); tk follows output element
\* (row, c) of the tile.  The accumulator is zeroed (loadc, float c_val = 0);
\* scale and zero are not read before the load at k = 0
KernelBegin ==
  /\ phase = "packed"
  /\ M > 0
  /\ \E row \in 0..(M - 1), c \in 0..(N - 1) :
       tk' = [row |-> row, c |-> c, k |-> 0, kb |-> 0,
              scale |-> 0, zero |-> 0,
              vc |-> loadc(C, store_offset(isa,
                                           tile(isa, M, N, K, qGroupSize,
                                                0, 0), row, c)),
              loads |-> <<>>, applied |-> <<>>, order |-> <<>>,
              terms |-> <<>>, cstores |-> <<>>]
  /\ phase' = "kernel"
  /\ UNCHANGED <<inputs, weight_packed, C, workers, err, writers, outside,
                 dispatched, run, Cprev, errprev, writersprev, pk, other,
                 dq, ext>>

\* one iteration of the loop over k, as output element (row, c) sees it
KernelStep ==
  /\ phase = "kernel"
  /\ tk.k < K
  /\ \E oob \in OobScales :
       LET t == tile(isa, M, N, K, qGroupSize, 0, 0)
           k == tk.k
           reload == isa = "ref" \/ is_block_start(k, t.BLOCK_K)
           kb == IF isa = "ref" THEN k \div t.BLOCK_K ELSE tk.kb
           inside == kb < K \div t.BLOCK_K
           sz == IF ~reload THEN [scale |-> tk.scale, zero |-> tk.zero]
                 ELSE IF inside
                 THEN load_scale_and_zeros(isa, Memory, t, tk.c, kb)
                 ELSE [scale |-> oob, zero |-> oob]
           b_val == fmadd(unpack(isa, weight_packed, t, tk.c, k),
                          sz.scale, sz.zero)
           a_val == A[t.A_ptr + tk.row * t.lda + k]
       IN tk' = [tk EXCEPT
                   !.k = k + 1,
                   !.kb = IF isa = "ref" THEN kb
                          ELSE IF reload THEN next_kb(kb) ELSE kb,
                   !.scale = sz.scale,
                   !.zero = sz.zero,
                   !.vc = fmadd(a_val, b_val, tk.vc),
                   !.loads = IF reload THEN Append(@, [k |-> k, kb |-> kb])
                             ELSE @,
                   !.applied = Append(@, IF reload THEN kb
                                         ELSE IF @ = <<>> THEN -1
                                         ELSE @[Len(@)]),
                   !.order = Append(@, k),
                   !.terms = Append(@, a_val * b_val)]
  /\ UNCHANGED <<inputs, weight_packed, C, phase, workers, err, writers,
                 outside, dispatched, run, Cprev, errprev, writersprev, pk,
                 other, dq, ext>>

\* the loop over k has ended: storec narrows the accumulator to bfloat16 and
\* stores it into C
KernelEnd ==
  /\ phase = "kernel"
  /\ tk.k = K
  /\ phase' = "kernel done"
  /\ LET t == tile(isa, M, N, K, qGroupSize, 0, 0)
         off == store_offset(isa, t, tk.row, tk.c)
         val == cvtfp32_bf16(tk.vc)
     IN /\ C' = [C EXCEPT ![off] = val]
        /\ tk' = [tk EXCEPT !.cstores = Append(@, [off |-> off, k |-> tk.k,
                                                   val |-> val])]
  /\ UNCHANGED <<inputs, weight_packed, workers, err, writers, outside,
                 dispatched, run, Cprev, errprev, writersprev, pk, other,
                 dq, ext>>

NextKernel ==
  \/ PackBegin
  \/ \E tid \in DOMAIN workers : PackBlock(tid)
  \/ PackEnd
  \/ KernelBegin
  \/ KernelStep
  \/ KernelEnd

SpecKernel == InitKernel /\ [][NextKernel]_vars

\* ------------------------------------------------------------ group refresh
InKernel == phase \in {"kernel", "kernel done"}

PowerOfTwo(n) == n > 0 /\ BitAnd(n, n - 1) = 0

\* the reduction indices at which the pair has been loaded so far
LoadedAt == {tk.loads[j].k : j \in 1..Len(tk.loads)}

\* the pair has been loaded exactly at the indices k with k mod group_size = 0
LoadsAtGroupStarts ==
  LoadedAt = {k \in 0..(tk.k - 1) : k % qGroupSize = 0}

\* the pair applied at every index k so far is the one of group k div
\* group_size
AppliedPairOfGroup ==
  \A k \in 0..(tk.k - 1) : tk.applied[k + 1] = k \div qGroupSize

\* every group index loaded so far lies in the scale/zero table
LoadsInTable ==
  \A j \in 1..Len(tk.loads) : tk.loads[j].kb < K \div qGroupSize

\* C17 as stated: for every group_size that divides K, the pair is reloaded
\* exactly at the indices k with k mod group_size = 0, the pair applied at k
\* is the one of group k div group_size, and no group index loaded reaches
\* K / group_size.
C17_GroupRefresh ==
  InKernel => LoadsAtGroupStarts /\ AppliedPairOfGroup /\ LoadsInTable

\* C17 amended: in the vectorized variants, for every power-of-two
\* group_size that divides K, the pair is reloaded exactly at the indices k
\* with k mod group_size = 0; the non-vectorized variant reads the pair at
\* every index k, for every group_size that divides K; in both cases the pair
\* applied at k is the one of group k div group_size and no group index
\* loaded reaches K / group_size.
C17_GroupRefreshPowerOfTwo ==
  InKernel =>
    /\ (isa # "ref" /\ PowerOfTwo(qGroupSize)) =>
         LoadsAtGroupStarts /\ AppliedPairOfGroup /\ LoadsInTable
    /\ isa = "ref" =>
         /\ LoadedAt = 0..(tk.k - 1)
         /\ AppliedPairOfGroup /\ LoadsInTable

\* a vectorized kernel has run through two groups of four indices and has
\* loaded the pair at k = 0 and k = 4
C17_Witness ==
  /\ phase = "kernel done" /\ isa # "ref"
  /\ qGroupSize = 4 /\ K = 8
  /\ tk.loads = <<[k |-> 0, kb |-> 0], [k |-> 4, kb |-> 1]>>
  /\ tk.applied = <<0, 0, 0, 0, 1, 1, 1, 1>>

\* ------------------------------------------------------- loads per group
\* the loads of the pair of group g so far
LoadsOfGroup(g) == {j \in 1..Len(tk.loads) : tk.loads[j].kb = g}

\* every group has been loaded once: K / group_size loads in all
OncePerGroup ==
  /\ Len(tk.loads) = K \div qGroupSize
  /\ \A g \in 0..(K \div qGroupSize - 1) : Cardinality(LoadsOfGroup(g)) = 1

\* C18 as stated: in every variant, once the reduction of an output element
\* has ended the pair of its column has been loaded once for every group,
\* K / group_size loads in all.
C18_OncePerGroup ==
  phase = "kernel done" => OncePerGroup

\* C18 amended: in the vectorized variants, for every power-of-two
\* group_size that divides K, the pair of a column has been loaded once for
\* every group, K / group_size loads in all; the non-vectorized variant
\* loads the pair once per reduction index, group_size times for every
\* group and K times in all, for each output element.
C18_OncePerGroupVectorized ==
  phase = "kernel done" =>
    /\ (isa # "ref" /\ PowerOfTwo(qGroupSize)) => OncePerGroup
    /\ isa = "ref" =>
         /\ Len(tk.loads) = K
         /\ \A g \in 0..(K \div qGroupSize - 1) :
              Cardinality(LoadsOfGroup(g)) = qGroupSize

\* the reduction over two groups of two indices has ended in the AVX2
\* variant with two loads
C18_Witness ==
  /\ phase = "kernel done" /\ isa = "avx2"
  /\ qGroupSize = 2 /\ K = 4
  /\ Len(tk.loads) = 2
  /\ Cardinality(LoadsOfGroup(0)) = 1 /\ Cardinality(LoadsOfGroup(1)) = 1

\* ---------------------------------------------------------- reduction order
\* C20: in every variant the accumulator of an output element starts at
\* zero and receives its product terms in the order k = 0, 1, .., K - 1,
\* each once: after j iterations it is the sum of the terms of 0 .. j - 1,
\* and for a power-of-two group size the final value is the one the tile
\* computation stores.
C20_SequentialReduction ==
  InKernel =>
    /\ tk.order = [j \in 1..tk.k |-> j - 1]
    /\ Len(tk.terms) = tk.k
    /\ tk.vc = SumTerms(tk.terms, 1, Len(tk.terms))
    /\ tk.k = 0 => tk.vc = 0
    /\ phase = "kernel done" => tk.k = K
    /\ (phase = "kernel done" /\ PowerOfTwo(qGroupSize)) =>
         LET t == tile(isa, M, N, K, qGroupSize, 0, 0)
         IN tk.vc = accumulate(Memory, t, dequant_tile(isa, Memory, t),
                               tk.row, tk.c)

\* the reduction of the last element of the tile over eight indices has
\* ended with a non-zero accumulator
C20_Witness ==
  /\ phase = "kernel done" /\ K = 8
  /\ tk.row = M - 1 /\ tk.c = N - 1
  /\ tk.order = <<0, 1, 2, 3, 4, 5, 6, 7>>
  /\ tk.vc # 0
  /\ tk.vc = SumTerms(tk.terms, 1, 8)

\* ------------------------------------------------- the unpack strategies
\* scale and zero in units of 2^-24, all of them bfloat16 values:
\* 0.25, 0.5, 1.0, 1.5 and 0, 2^-23, 2^-16, 1.0, -1.5, 2.0
UnpackScales == {4194304, 8388608, 16777216, 25165824}

UnpackZeros == {0, 2, 256, 16777216, -25165824, 33554432}

\* vb = _mm512_permutexvar_ps(b32, lut); vb = _mm512_fmadd_ps(vb, scale, zero)
DequantAvx512(u, scale, zero) ==
  LET raw == lut512[(u % 16) + 1]
  IN [raw |-> raw, offset |-> 0, zero |-> zero,
      value |-> fp32(raw * scale + zero)]

\* zero = _mm256_fmadd_ps(scale, offset, zero) when the pair is loaded, then
\* vb = _mm256_cvtepi32_ps(b32 & mask); vb = _mm256_fmadd_ps(vb, scale, zero)
DequantAvx2(u, scale, zero) ==
  LET raw == BitAnd(u, 15)
      folded == fp32(scale * offset_avx2 + zero)
  IN [raw |-> raw, offset |-> offset_avx2, zero |-> folded,
      value |-> fp32(raw * scale + folded)]

\* b_val = convert_int4_to_float(b_pack, true); b_val = b_val * scale + zero
DequantRef(u, scale, zero) ==
  LET raw == convert_int4_to_float(u, TRUE)
  IN [raw |-> raw, offset |-> 0, zero |-> zero,
      value |-> fp32(fp32(raw * scale) + zero)]

InitUnpack ==
  /\ isa \in ISAs
  /\ Buffers(0, 2, 1, 1,
             [n \in 0..1, k \in 0..0 |-> WeightValue("nibble", n, k)],
             <<>>,
             [kb \in 0..0, n \in 0..1, j \in 0..1 |-> IF j = 0 THEN 1 ELSE 0])

\* one packed nibble u is dequantized with one (scale, zero) pair by the
\* unpack step of each variant
Dequantize ==
  /\ dq = <<>>
  /\ \E u \in 0..15, scale \in UnpackScales, zero \in UnpackZeros :
       dq' = [u |-> u, scale |-> scale, zero |-> zero,
              avx512 |-> DequantAvx512(u, scale, zero),
              avx2 |-> DequantAvx2(u, scale, zero),
              ref |-> DequantRef(u, scale, zero)]
  /\ UNCHANGED <<inputs, weight_packed, C, phase, workers, err, writers,
                 outside, dispatched, run, Cprev, errprev, writersprev, pk,
                 tk, other, ext>>

NextUnpack == Dequantize

SpecUnpack == InitUnpack /\ [][NextUnpack]_vars

\* the three strategies yield the same integer once the offset of the AVX2
\* variant is counted in, and the same dequantized value
StrategiesAgree ==
  /\ dq.avx512.raw = dq.ref.raw
  /\ dq.avx512.raw = dq.avx2.raw + dq.avx2.offset
  /\ dq.avx512.value = dq.ref.value
  /\ dq.avx512.value = dq.avx2.value

\* scale * (-8) + zero is a float: folding the offset into the zero-point
\* rounds nothing
ExactFold == dq.avx2.zero = dq.scale * offset_avx2 + dq.zero

\* C19 as stated: for every nibble u and every scale and zero, the lookup
\* table unpack and the mask, convert and offset unpack yield the same raw
\* integer and the same dequantized value.
C19_UnpackAgree ==
  dq # <<>> => StrategiesAgree

\* C19 amended: for every nibble u and every scale and zero for which
\* zero - 8 * scale is exactly representable in single precision, the lookup
\* table yields u - 8, the AVX2 variant converts u itself and folds the
\* offset -8 into the zero-point, and the three variants yield the same
\* dequantized value.
C19_UnpackAgreeExactFold ==
  (dq # <<>> /\ ExactFold) =>
    /\ StrategiesAgree
    /\ dq.avx512.raw = dq.u - 8
    /\ dq.avx2.raw = dq.u

\* nibble 15 has been dequantized with scale 1.5 and zero 2^-16, which fold
\* exactly, to 7 * 1.5 + 2^-16 by all three strategies
C19_Witness ==
  /\ dq # <<>> /\ ExactFold
  /\ dq.u = 15 /\ dq.scale = 25165824 /\ dq.zero = 256
  /\ dq.avx512.value = 7 * 25165824 + 256
  /\ dq.avx2.value = dq.avx512.value /\ dq.ref.value = dq.avx512.value
  /\ dq.avx2.zero # dq.zero

\* ------------------------------------------- two calls at the same time
\* shapes with two row tiles and two column tiles, one of them with a column
\* tile the dispatch rejects
InitConcurrent ==
  /\ isa \in ISAs
  /\ \E M_ \in {BLOCK_M + 1}, u \in {BLOCK_N(isa) \div 8 + 1,
                                    BLOCK_N(isa) \div 8 + 2} :
       Buffers(M_, 8 * u, 2, 2,
               [n \in 0..(8 * u - 1), k \in 0..1 |->
                  WeightValue("nibble", n, k)],
               [m \in 0..(M_ - 1), k \in 0..1 |-> ActivationValue(m, k)],
               [kb \in 0..0, n \in 0..(8 * u - 1), j \in 0..1 |->
                  IF j = 0 THEN ScaleValue(kb, n) ELSE ZeroValue(kb, n)])

\* the total number of loop iterations the first call has begun
Progress ==
  IF phase = "running"
  THEN SumTerms([tid \in 1..Cardinality(DOMAIN workers) |->
                   workers[tid - 1].i], 1, Cardinality(DOMAIN workers))
  ELSE IF phase = "done" THEN -1 ELSE -2

\* a second caller invokes int4pack_mm with the same A, packed weights and
\* scale/zero table and an output buffer of its own
OtherBegin ==
  /\ phase = "running"
  /\ other = <<>>
  /\ \E T \in 1..MaxThreads :
       LET MB == MBlocks(M)
           NB == NBlocks(isa, N)
       IN other' =
            [phase |-> "running",
             C |-> [o \in DOMAIN C |-> Junk(2)],
             writers |-> [o \in DOMAIN C |-> <<>>],
             outside |-> {},
             err |-> <<>>,
             seen |-> {},
             workers |->
               [tid \in chunk_threads(0, MB * NB, T) |->
                  LET begin == chunk_begin(0, MB * NB, T, tid)
                      idx == data_index_init(begin, MB, NB)
                  IN [i |-> begin, end |-> chunk_end(0, MB * NB, T, tid),
                      mb |-> idx.mb, nb |-> idx.nb, threw |-> FALSE]]]
  /\ UNCHANGED <<inputs, weight_packed, C, phase, workers, err, writers,
                 outside, dispatched, run, Cprev, errprev, writersprev, pk,
                 tk, dq, ext>>

\* the record of the second call after one loop iteration of its thread tid
OtherAfter(tid) ==
  LET w == other.workers[tid]
      t == tile(isa, M, N, K, qGroupSize, w.mb, w.nb)
      r == launch(isa, Memory, t)
      st == StoreTile([C |-> other.C, writers |-> other.writers,
                       outside |-> other.outside],
                      r.stores, 1, Len(r.stores), <<w.mb, w.nb>>)
      nxt == data_index_step(w.mb, MBlocks(M), w.nb, NBlocks(isa, N))
  IN IF r.kernel
     THEN [other EXCEPT !.C = st.C, !.writers = st.writers,
                        !.outside = st.outside,
                        !.seen = @ \cup {Progress},
                        !.workers[tid].i = @ + 1,
                        !.workers[tid].mb = nxt.mb,
                        !.workers[tid].nb = nxt.nb]
     ELSE [other EXCEPT !.workers[tid].threw = TRUE,
                        !.seen = @ \cup {Progress},
                        !.err = IF @ = <<>> THEN r.error ELSE @]

OtherRunning(tid) ==
  /\ other # <<>>
  /\ other.phase = "running"
  /\ tid \in DOMAIN other.workers
  /\ other.workers[tid].i < other.workers[tid].end
  /\ ~other.workers[tid].threw

\* OtherTileStep with the tile stored through the output pointer of the
\* first call
OtherTileStep_into_C(tid) ==
  /\ OtherRunning(tid)
  /\ LET w == other.workers[tid]
         r == launch(isa, Memory, tile(isa, M, N, K, qGroupSize, w.mb, w.nb))
     IN /\ other' = [OtherAfter(tid) EXCEPT !.C = other.C]
        /\ C' = ApplyStores(C, r.stores, 1, Len(r.stores))
  /\ UNCHANGED <<inputs, weight_packed, phase, workers, err, writers,
                 outside, dispatched, run, Cprev, errprev, writersprev, pk,
                 tk, dq, ext>>

\* one iteration of the loop over the tiles of a thread of the second call
OtherTileStep(tid) ==
  /\ OtherRunning(tid)
  /\ other' = OtherAfter(tid)
  /\ UNCHANGED <<inputs, weight_packed, C, phase, workers, err, writers,
                 outside, dispatched, run, Cprev, errprev, writersprev, pk,
                 tk, dq, ext>>

\* the parallel_for of the second call joins its threads
OtherEnd ==
  /\ other # <<>>
  /\ other.phase = "running"
  /\ \A tid \in DOMAIN other.workers :
       other.workers[tid].i = other.workers[tid].end
         \/ other.workers[tid].threw
  /\ other' = [other EXCEPT !.phase = "done"]
  /\ UNCHANGED <<inputs, weight_packed, C, phase, workers, err, writers,
                 outside, dispatched, run, Cprev, errprev, writersprev, pk,
                 tk, dq, ext>>

NextConcurrent ==
  \/ PackBegin
  \/ \E tid \in DOMAIN workers : PackBlock(tid)
  \/ PackEnd
  \/ MMBegin
  \/ \E tid \in DOMAIN workers : TileStep(tid)
  \/ MMEnd
  \/ OtherBegin
  \/ \E tid \in 0..(MaxThreads - 1) : OtherTileStep(tid)
  \/ OtherEnd

SpecConcurrent == InitConcurrent /\ [][NextConcurrent]_vars

\* ---------------------------------------------------------- re-entrancy
\* the output one call leaves when it runs alone with its tile range split
\* as in ws: each thread processes its sub-range up to the first tile that
\* raises
RECURSIVE AloneFrom(_, _, _, _)
AloneFrom(ws, tid, begin, out) ==
  IF tid \notin DOMAIN ws THEN out
  ELSE LET next == RangeFrom(Memory, begin, ws[tid].end,
                             data_index_init(begin, MBlocks(M),
                                             NBlocks(isa, N)), out)
       IN After(next, AloneFrom(ws, tid + 1, ws[tid].end, next))

FreshOutput(r) == [o \in DOMAIN C |-> Junk(r)]

OtherJoined ==
  /\ other # <<>>
  /\ \A tid \in DOMAIN other.workers :
       other.workers[tid].i = other.workers[tid].end
         \/ other.workers[tid].threw

\* C13: two calls that share A, the packed weights and the scale/zero table
\* and have distinct output buffers each leave in their own output what the
\* call leaves when it runs alone, they raise exactly when the call alone
\* raises, and neither stores outside its own output.
C13_Reentrancy ==
  /\ (other # <<>> /\ Joined) =>
       /\ C = AloneFrom(workers, 0, 0, FreshOutput(1))
       /\ (err # <<>>) <=> ~AllShapesSupported
       /\ outside = {}
  /\ OtherJoined =>
       /\ other.C = AloneFrom(other.workers, 0, 0, FreshOutput(2))
       /\ (other.err # <<>>) <=> ~AllShapesSupported
       /\ other.outside = {}

\* both calls have joined after their loop iterations interleaved, each on
\* two threads, on a grid of more than one tile
C13_Witness ==
  /\ Joined
  /\ OtherJoined
  /\ Cardinality(DOMAIN workers) = 2
  /\ Cardinality(DOMAIN other.workers) = 2
  /\ Cardinality(other.seen) >= 3
  /\ AllShapesSupported
  /\ C = SingleRange
  /\ \A o \in DOMAIN C : other.C[o] = C[o]
\* ------------------------------------------------ accumulate wide, narrow once
\* C21: while the reduction loop of an output element runs, C holds what it
\* held before the call and the element has not been stored; when the kernel
\* is done the element has been stored exactly once, after step K - 1, and
\* holds the bfloat16 rounding of the sum of all K products, so the loop
\* accumulated unrounded and did not start from the contents of C; no other
\* element of C changed.
C21_NarrowOnce ==
  /\ phase = "kernel" =>
       /\ tk.cstores = <<>>
       /\ C = FreshOutput(1)
  /\ phase = "kernel done" =>
       /\ Len(tk.cstores) = 1
       /\ tk.cstores[1].k = K
       /\ Len(tk.terms) = K
       /\ tk.cstores[1].off = tk.row * N + tk.c
       /\ C[tk.cstores[1].off] = cvtfp32_bf16(SumTerms(tk.terms, 1, K))
       /\ \A o \in DOMAIN C :
            o # tk.cstores[1].off => C[o] = FreshOutput(1)[o]

\* an element of the second row has been stored after a reduction of several
\* steps whose sum the narrowing rounded
C21_Witness ==
  /\ phase = "kernel done"
  /\ K >= 3
  /\ tk.row = 1
  /\ Len(tk.cstores) = 1
  /\ C[tk.cstores[1].off] # SumTerms(tk.terms, 1, K)
  /\ C[tk.cstores[1].off] # Junk(1)

\* ------------------------------------------------ packer block independence
\* the offsets of src that hold the weight rows of N-block i
BlockSource(i) ==
  { n * K + k : n \in (i * BLOCK_N(isa))..(i * BLOCK_N(isa) + BlockWidth(i) - 1),
                k \in 0..(K - 1) }

\* the bytes of the packed buffer that belong to N-block i
BlockBytes(i) ==
  LET dst == (i * K * BLOCK_N(isa)) \div 2
  IN dst..(dst + (K * BlockWidth(i)) \div 2 - 1)

\* every store of N-block i reads only the block's weight rows and goes to
\* one of the block's bytes
BlockLocal(i) ==
  LET stores == PackStores(isa, SrcMemory(0), N, K, i)
  IN \A j \in 1..Len(stores) :
       /\ stores[j].reads \subseteq BlockSource(i)
       /\ stores[j].off \in BlockBytes(i)

\* whatever the split of the blocks among the threads and however far each
\* thread has come, a byte is either untouched or holds what the packer
\* running its blocks in order stores there
PackedSoFar ==
  LET final == weight_to_int4pack(isa, SrcMemory(0), N, K)
  IN /\ \A o \in DOMAIN weight_packed :
          IF pk.stored[o] = 0 THEN weight_packed[o] = 255
          ELSE weight_packed[o] = final[o]
     /\ phase = "packed" => weight_packed = final

BlockIndependence ==
  /\ \A i \in Blocks : BlockLocal(i)
  /\ \A i \in Blocks, j \in Blocks :
       i # j => BlockBytes(i) \cap BlockBytes(j) = {}
  /\ PackedSoFar

\* C22 as stated: for every N and K the stores of an N-block read only the
\* block's weight rows and go to a byte range disjoint from every other
\* block's, and the packed buffer is the same for every partition of the
\* blocks among threads and every interleaving.
C22_BlockIndependence ==
  phase \in {"packing", "packed"} => BlockIndependence

\* C22 amended: the same for every even N.
C22_BlockIndependenceEvenN ==
  (phase \in {"packing", "packed"} /\ N % 2 = 0) => BlockIndependence

\* both threads that share the three N-blocks of a matrix have finished,
\* after the second thread packed its block before the first began
C22_Witness ==
  /\ phase = "packing"
  /\ N % 2 = 0
  /\ Cardinality(Blocks) = 3
  /\ Cardinality(DOMAIN workers) = 2
  /\ \A tid \in DOMAIN workers : workers[tid].i = workers[tid].end
  /\ weight_packed = weight_to_int4pack(isa, weight, N, K)

\* ------------------------------------- a packed buffer under another variant
VectorISAs == {"avx512", "avx2"}

\* the vectorized variant that is not the one the buffer was packed by
OtherVariant == IF isa = "avx512" THEN "avx2" ELSE "avx512"

\* one row tile and every supported width as N, packed by a vectorized
\* variant, with scale 1 and zero 0
InitLayout ==
  /\ isa \in VectorISAs
  /\ \E N_ \in NB_SIZES, K_ \in 1..MaxLayoutK :
       Buffers(1, N_, K_, K_,
               [n \in 0..(N_ - 1), k \in 0..(K_ - 1) |->
                  WeightValue("nibble", n, k)],
               [m \in 0..0, k \in 0..(K_ - 1) |-> ActivationValue(m, k)],
               [kb \in 0..0, n \in 0..(N_ - 1), j \in 0..1 |->
                  IF j = 0 THEN 1 ELSE 0])

\* the value the kernel of variant reader dequantizes for W[n, k] from
\* weight_packed, with the tile geometry of that variant
CrossUnpacked(reader, n, k) ==
  LET t == tile(reader, M, N, K, qGroupSize, 0, n \div BLOCK_N(reader))
  IN dequant(reader, Memory, t, n % BLOCK_N(reader), k, kb_at(reader, t, k))

\* the kernel of the other vectorized variant dequantizes W[n, k] from the
\* buffer this variant packed
CrossRead ==
  /\ phase = "packed"
  /\ dq = <<>>
  /\ \E n \in 0..(N - 1), k \in 0..(K - 1) :
       dq' = [n |-> n, k |-> k, reader |-> OtherVariant,
              value |-> CrossUnpacked(OtherVariant, n, k),
              own |-> CrossUnpacked(isa, n, k)]
  /\ UNCHANGED <<inputs, weight_packed, C, phase, workers, err, writers,
                 outside, dispatched, run, Cprev, errprev, writersprev, pk,
                 tk, other, ext>>

NextLayout ==
  \/ PackBegin
  \/ \E tid \in DOMAIN workers : PackBlock(tid)
  \/ PackEnd
  \/ CrossRead

SpecLayout == InitLayout /\ [][NextLayout]_vars

\* the byte offset and nibble where the packer of variant p stores W[n, k]:
\* the one nibble of the packed block that is set when W[n, k] is the only
\* weight that is not zero
Position(p, n, k) ==
  LET hot == [o \in DOMAIN weight |-> IF o = n * K + k THEN 15 ELSE 0]
      stores == PackStores(p, hot, N, K, n \div BLOCK_N(p))
      j == CHOOSE j \in 1..Len(stores) : stores[j].val # 0
  IN [off |-> stores[j].off, high |-> stores[j].val >= 16]

LayoutsDiffer ==
  \E n \in 0..(N - 1), k \in 0..(K - 1) :
    Position("avx512", n, k) # Position("avx2", n, k)

CrossDecodes ==
  \A n \in 0..(N - 1), k \in 0..(K - 1) :
    CrossUnpacked(OtherVariant, n, k) = weight[n * K + k] - 8

\* every recorded read decoded the weight with the packer's own kernel and
\* the other variant's kernel read one of the stored nibbles
ReadRecorded ==
  dq # <<>> =>
    /\ dq.own = weight[dq.n * K + dq.k] - 8
    /\ dq.value \in -8..7

\* C23 as stated: for every supported N the packers of the two vectorized
\* variants store some W[n, k] at different (byte, nibble) positions, and a
\* buffer packed by one of them does not decode to the original weights
\* under the kernel of the other.
C23_LayoutsNotPortable ==
  phase = "packed" => (LayoutsDiffer /\ ~CrossDecodes /\ ReadRecorded)

\* C23 amended: the same for N = 32, 48 and 64; for N = 16 both packers use
\* the adjacent-pair layout, every position is the same, and the buffer
\* decodes to the original weights under either kernel.
C23_LayoutsNotPortableFrom32 ==
  phase = "packed" =>
    /\ N >= 32 => (LayoutsDiffer /\ ~CrossDecodes)
    /\ N = 16 => (~LayoutsDiffer /\ CrossDecodes)
    /\ ReadRecorded

\* the other variant's kernel has read a weight of a buffer of 48 columns and
\* got a value that is not the weight the packer's own kernel decodes
C23_Witness ==
  /\ phase = "packed"
  /\ N = 48
  /\ dq # <<>>
  /\ dq.value # dq.own
  /\ dq.own = weight[dq.n * K + dq.k] - 8

\* ------------------------------------- packer and kernel of the same variant
\* one row tile and every N of one or two N-blocks of supported widths, for
\* all three variants
InitAgree ==
  /\ isa \in ISAs
  /\ \E N_ \in NB_SIZES, K_ \in 1..MaxLayoutK :
       Buffers(1, N_, K_, K_,
               [n \in 0..(N_ - 1), k \in 0..(K_ - 1) |->
                  WeightValue("nibble", n, k)],
               [m \in 0..0, k \in 0..(K_ - 1) |-> ActivationValue(m, k)],
               [kb \in 0..0, n \in 0..(N_ - 1), j \in 0..1 |->
                  IF j = 0 THEN ScaleValue(kb, n) ELSE ZeroValue(kb, n)])

\* the integer the kernel applies scale and zero to for column c of tile t at
\* index k: the unpacked lane, with the offset the AVX2 kernel adds through
\* the zero-point
RawValue(B, t, c, k) ==
  unpack(isa, B, t, c, k) + (IF isa = "avx2" THEN offset_avx2 ELSE 0)

\* the tile that holds column n
ColumnTile(n) == tile(isa, M, N, K, qGroupSize, 0, n \div BLOCK_N(isa))

\* the weight positions whose raw value is not -8 when the kernel reads the
\* packed form of the matrix whose only weight that is not zero is W[n, k]
HotPositions(n, k) ==
  LET hot == [o \in DOMAIN weight |-> IF o = n * K + k THEN 15 ELSE 0]
      B == weight_to_int4pack(isa, hot, N, K)
  IN { p \in (0..(N - 1)) \X (0..(K - 1)) :
         RawValue(B, ColumnTile(p[1]), p[1] % BLOCK_N(isa), p[2]) # -8 }

\* the kernel unpacks column n at index k from the packed buffer
KernelRead ==
  /\ phase = "packed"
  /\ dq = <<>>
  /\ \E n \in 0..(N - 1), k \in 0..(K - 1) :
       LET t == ColumnTile(n)
       IN dq' = [n |-> n, k |-> k,
                 nb_start |-> t.nb * BLOCK_N(isa),
                 nb_size |-> t.BLOCK_N,
                 B_ptr |-> t.B_ptr, ldb |-> t.ldb,
                 raw |-> RawValue(weight_packed, t, n % BLOCK_N(isa), k),
                 stored |-> Position(isa, n, k),
                 hot |-> HotPositions(n, k)]
  /\ UNCHANGED <<inputs, weight_packed, C, phase, workers, err, writers,
                 outside, dispatched, run, Cprev, errprev, writersprev, pk,
                 tk, other, ext>>

NextAgree ==
  \/ PackBegin
  \/ \E tid \in DOMAIN workers : PackBlock(tid)
  \/ PackEnd
  \/ KernelRead

SpecAgree == InitAgree /\ [][NextAgree]_vars

C25_RowBlockSupported ==
  /\ \A d \in dispatched :
       /\ d.mb_size = Min(BLOCK_M, M - d.mb * BLOCK_M)
       /\ d.mb_size \in MB_SIZES
       /\ d.error # <<>> => d.error[1] = "Unsupported n block size: "
  /\ err # <<>> =>
       /\ err[1] = "Unsupported n block size: "
       /\ err[2] \notin NB_SIZES
  /\ (phase = "done" /\ M = 0) => (dispatched = {} /\ err = <<>>)

\* a call with a last row tile of one row has dispatched that tile on a
\* supported width and has raised the column-block error for another tile
C25_Witness ==
  /\ phase = "done"
  /\ M = BLOCK_M + 1
  /\ err # <<>>
  /\ \E d \in dispatched : d.mb = 1 /\ d.mb_size = 1 /\ d.kernel
  /\ \E d \in dispatched : ~d.kernel

\* ====================================================== c10d/Functional.cpp
\* ------------------------------------------------------------ WorkRegistry
\* three tensors; "view" is a view of "base" and shares its storage
Tensors3 == {"base", "view", "solo"}

\* tensor.storage().getWeakStorageImpl()
storage(tensor) == IF tensor = "solo" THEN "s2" ELSE "s1"

Storages == {"s1", "s2"}

Works == {"w1", "w2"}

Callers == 1..MaxCallers

\* a thread that is in no call
Idle == [pc |-> "idle", op |-> "none", t |-> "none", w |-> "none",
         before |-> "none", ret |-> "none"]

\* the registry after construction: empty, lock_ free.  first and given
\* record per storage the first work registered since the last pop and how
\* many pop_work calls returned the latest registration
InitRegistry ==
  /\ NoTensors
  /\ wreg = [registry_ |-> <<>>, lock_ |-> 0,
             th |-> [c \in Callers |-> Idle],
             first |-> [s \in Storages |-> "none"],
             given |-> [s \in Storages |-> 0]]
  /\ fpm = <<>>
  /\ atm = <<>>

\* std::unique_lock lock(lock_) that does not wait for the mutex
try_lock_unguarded(lock, c) == TRUE

\* std::unique_lock lock(lock_): thread c gets the mutex when it is free
try_lock(lock, c) == lock = 0

\* registry_.emplace(storage, work): inserts when the key is absent and
\* leaves an existing entry as it is
emplace(reg, s, w) ==
  IF s \in DOMAIN reg THEN reg
  ELSE [x \in DOMAIN reg \cup {s} |-> IF x = s THEN w ELSE reg[x]]

\* registry_.erase(it)
erase(reg, s) == [x \in DOMAIN reg \ {s} |-> reg[x]]

\* the TORCH_CHECK of register_work passes
register_check(inserted, second, work) == inserted \/ second # work

\* a thread calls register_work(tensor, work)
RegisterCall(c) ==
  /\ wreg.th[c].pc = "idle"
  /\ \E t \in Tensors3, w \in Works :
       wreg' = [wreg EXCEPT
                  !.th[c] = [pc |-> "register", op |-> "register", t |-> t,
                             w |-> w, before |-> "none", ret |-> "none"]]
  /\ UNCHANGED <<mm, fpm, atm>>

\* std::unique_lock lock(lock_) of either member function
Lock(c) ==
  /\ wreg.th[c].pc \in {"register", "pop"}
  /\ try_lock(wreg.lock_, c)
  /\ wreg' = [wreg EXCEPT !.lock_ = c,
                          !.th[c].pc = IF @ = "register" THEN "emplace"
                                       ELSE "find"]
  /\ UNCHANGED <<mm, fpm, atm>>

\* emplace and TORCH_CHECK of register_work; the lock is released on return
\* and when the check throws
RegisterEmplace(c) ==
  /\ wreg.th[c].pc = "emplace"
  /\ LET me == wreg.th[c]
         s == storage(me.t)
         inserted == s \notin DOMAIN wreg.registry_
         reg == emplace(wreg.registry_, s, me.w)
         ok == register_check(inserted, reg[s], me.w)
     IN wreg' = [wreg EXCEPT
                   !.registry_ = reg,
                   !.lock_ = 0,
                   !.first[s] = IF @ = "none" THEN me.w ELSE @,
                   !.given[s] = IF inserted THEN 0 ELSE @,
                   !.th[c] = [me EXCEPT
                                !.pc = "idle",
                                !.before = IF inserted THEN "none"
                                           ELSE wreg.registry_[s],
                                !.ret = IF ok THEN "ok" ELSE
                                  "The tensor storage is already associated with another work."]]
  /\ UNCHANGED <<mm, fpm, atm>>

\* a thread calls wait_tensor(tensor), which calls pop_work(tensor)
WaitTensorCall(c) ==
  /\ wreg.th[c].pc = "idle"
  /\ \E t \in Tensors3 :
       wreg' = [wreg EXCEPT
                  !.th[c] = [pc |-> "pop", op |-> "wait_tensor", t |-> t,
                             w |-> "none", before |-> "none",
                             ret |-> "none"]]
  /\ UNCHANGED <<mm, fpm, atm>>

\* registry_.find(storage); pop_work returns nullptr when there is no entry
PopFind(c) ==
  /\ wreg.th[c].pc = "find"
  /\ LET s == storage(wreg.th[c].t)
     IN IF s \in DOMAIN wreg.registry_
        THEN wreg' = [wreg EXCEPT !.th[c].pc = "erase"]
        ELSE wreg' = [wreg EXCEPT !.lock_ = 0,
                                  !.th[c].pc = "idle",
                                  !.th[c].ret = "nullptr"]
  /\ UNCHANGED <<mm, fpm, atm>>

\* work = it->second; registry_.erase(it); return work.  An iterator whose
\* entry another thread erased in the meantime is dangling: the work read
\* through it is any work
PopErase(c) ==
  /\ wreg.th[c].pc = "erase"
  /\ LET s == storage(wreg.th[c].t)
     IN \E stale \in Works :
          LET work == IF s \in DOMAIN wreg.registry_
                      THEN wreg.registry_[s] ELSE stale
          IN wreg' = [wreg EXCEPT
                        !.registry_ = erase(@, s),
                        !.lock_ = 0,
                        !.first[s] = "none",
                        !.given[s] = @ + 1,
                        !.th[c].pc = "wait",
                        !.th[c].before = wreg.first[s],
                        !.th[c].ret = work]
  /\ UNCHANGED <<mm, fpm, atm>>

\* work->wait() of wait_tensor, for a work that is not null
WorkWait(c) ==
  /\ wreg.th[c].pc = "wait"
  /\ wreg' = [wreg EXCEPT !.th[c].pc = "idle", !.th[c].op = "waited"]
  /\ UNCHANGED <<mm, fpm, atm>>

NextRegistry ==
  \E c \in Callers :
    \/ RegisterCall(c)
    \/ Lock(c)
    \/ RegisterEmplace(c)
    \/ WaitTensorCall(c)
    \/ PopFind(c)
    \/ PopErase(c)
    \/ WorkWait(c)

SpecRegistry == InitRegistry /\ [][NextRegistry]_vars

\* ------------------------------------------------------ register_work
Registered(c) == wreg.th[c].op = "register" /\ wreg.th[c].pc = "idle"

AlreadyAssociated ==
  "The tensor storage is already associated with another work."

\* C26: a register_work call that finds the storage associated with a
\* different work ends with the error "The tensor storage is already
\* associated with another work."; every other call returns; and a storage
\* in the registry is associated with the first work registered for it since
\* its last pop.
C26_RegisterWork ==
  /\ \A c \in Callers :
       Registered(c) =>
         (wreg.th[c].ret = AlreadyAssociated
            <=> wreg.th[c].before \notin {"none", wreg.th[c].w})
  /\ \A s \in DOMAIN wreg.registry_ : wreg.registry_[s] = wreg.first[s]

ValidModes == {"strict", "bf16", "f16", "tf32", "any"}

\* the values a caller may pass as dnnl_fpmath_mode_t: the enumerators and
\* an integer that is none of them
ModeArguments == ValidModes \cup {"0x7fff"}

\* what the DEFAULT_FPMATH_MODE environment variable may hold: nothing, a
\* mode name, or another string
EnvValues == {"", "strict", "bf16", "f16", "tf32", "any", "fast"}

\* a thread that is in no call
Quiet == [pc |-> "idle", op |-> "none", arg |-> "none", ret |-> "none",
          mode |-> "none", alone |-> TRUE, expect |-> "none",
          wrote |-> FALSE, out |-> "unwritten", asserted |-> TRUE]

\* static setting_t<fpmath_mode_t> default_fpmath {fpmath_mode::strict}: the
\* value is strict and the setting is not initialized.  lastset is the mode
\* of the latest dnnl_set_default_fpmath_mode call that returned success
InitFpmath ==
  /\ NoTensors
  /\ wreg = <<>>
  /\ atm = <<>>
  /\ \E e \in EnvValues :
       fpm = [value_ |-> "strict", initialized_ |-> FALSE, env |-> e,
              lastset |-> "none", th |-> [c \in Callers |-> Quiet]]

\* check_fpmath_mode that accepts every value
check_fpmath_mode_any(mode) == "success"

\* check_fpmath_mode
check_fpmath_mode(mode) ==
  IF mode \in ValidModes THEN "success" ELSE "invalid_arguments"

\* a call of dnnl_set_default_fpmath_mode is in progress
Setting(c) == fpm.th[c].op = "set" /\ fpm.th[c].pc # "idle"

\* dnnl_set_default_fpmath_mode(mode) is called.  Every get_fpmath_mode call
\* in progress now overlaps a set
SetCall(c) ==
  /\ fpm.th[c].pc = "idle"
  /\ \E mode \in ModeArguments :
       fpm' = [fpm EXCEPT
                 !.th = [d \in Callers |->
                           IF d = c
                           THEN [Quiet EXCEPT !.pc = "check", !.op = "set",
                                              !.arg = mode]
                           ELSE [fpm.th[d] EXCEPT
                                   !.alone = IF fpm.th[d].pc = "idle"
                                             THEN @ ELSE FALSE]]]
  /\ UNCHANGED <<mm, wreg, atm>>

\* auto st = check_fpmath_mode(mode); an invalid mode returns st
SetCheck(c) ==
  /\ fpm.th[c].pc = "check"
  /\ LET st == check_fpmath_mode(fpm.th[c].arg)
     IN fpm' = [fpm EXCEPT
                  !.th[c].pc = IF st = "success" THEN "set value" ELSE "idle",
                  !.th[c].ret = st]
  /\ UNCHANGED <<mm, wreg, atm>>

\* default_fpmath.set(mode): value_ = new_value
SetValue(c) ==
  /\ fpm.th[c].pc = "set value"
  /\ fpm' = [fpm EXCEPT !.value_ = fpm.th[c].arg,
                        !.th[c].pc = "set flag",
                        !.th[c].wrote = TRUE]
  /\ UNCHANGED <<mm, wreg, atm>>

\* default_fpmath.set(mode): initialized_ = true; return st
SetFlag(c) ==
  /\ fpm.th[c].pc = "set flag"
  /\ fpm' = [fpm EXCEPT !.initialized_ = TRUE,
                        !.lastset = fpm.th[c].arg,
                        !.th[c].pc = "idle"]
  /\ UNCHANGED <<mm, wreg, atm>>

\* get_fpmath_mode() is called, directly or by
\* dnnl_get_default_fpmath_mode(mode) with a pointer that is not null
GetCall(c) ==
  /\ fpm.th[c].pc = "idle"
  /\ \E op \in {"get", "get_default"} :
       fpm' = [fpm EXCEPT
                 !.th[c] = [Quiet EXCEPT
                              !.pc = "initialized", !.op = op,
                              !.arg = "mode",
                              !.alone = \A d \in Callers : ~Setting(d)]]
  /\ UNCHANGED <<mm, wreg, atm>>

\* dnnl_get_default_fpmath_mode(nullptr) returns invalid_arguments
GetNull(c) ==
  /\ fpm.th[c].pc = "idle"
  /\ fpm' = [fpm EXCEPT
               !.th[c] = [Quiet EXCEPT !.op = "get_default",
                                       !.arg = "nullptr",
                                       !.ret = "invalid_arguments"]]
  /\ UNCHANGED <<mm, wreg, atm>>

\* init_fpmath_mode: if (default_fpmath.initialized()) return;
InitInitialized(c) ==
  /\ fpm.th[c].pc = "initialized"
  /\ fpm' = [fpm EXCEPT !.th[c].pc = IF fpm.initialized_ THEN "get"
                                     ELSE "getenv"]
  /\ UNCHANGED <<mm, wreg, atm>>

\* init_fpmath_mode: val = getenv_string_user(..); when val names a mode,
\* default_fpmath.set(that mode)
InitEnv(c) ==
  /\ fpm.th[c].pc = "getenv"
  /\ IF fpm.env \in ValidModes
     THEN fpm' = [fpm EXCEPT !.value_ = fpm.env,
                             !.initialized_ = TRUE,
                             !.th[c].pc = "fallback",
                             !.th[c].wrote = TRUE]
     ELSE fpm' = [fpm EXCEPT !.th[c].pc = "fallback"]
  /\ UNCHANGED <<mm, wreg, atm>>

\* init_fpmath_mode: if (!default_fpmath.initialized())
\*                     default_fpmath.set(default_fpmath.get());
InitFallback(c) ==
  /\ fpm.th[c].pc = "fallback"
  /\ fpm' = [fpm EXCEPT !.initialized_ = TRUE, !.th[c].pc = "get"]
  /\ UNCHANGED <<mm, wreg, atm>>

\* auto mode = default_fpmath.get(); assert(check_fpmath_mode(mode) ==
\* status::success); get_fpmath_mode returns mode, and
\* dnnl_get_default_fpmath_mode stores it through the pointer when it is
\* valid and returns the status
GetValue(c) ==
  /\ fpm.th[c].pc = "get"
  /\ LET m == fpm.value_
         st == check_fpmath_mode(m)
         me == fpm.th[c]
     IN fpm' = [fpm EXCEPT
                  !.th[c] = [me EXCEPT
                               !.pc = "idle",
                               !.mode = m,
                               !.asserted = st = "success",
                               !.ret = IF me.op = "get" THEN m ELSE st,
                               !.out = IF me.op = "get_default"
                                          /\ st = "success"
                                       THEN m ELSE @,
                               !.alone = @ /\ \A d \in Callers : ~Setting(d),
                               !.expect =
                                 IF fpm.lastset # "none" THEN fpm.lastset
                                 ELSE IF fpm.env \in ValidModes THEN fpm.env
                                 ELSE "strict"]]
  /\ UNCHANGED <<mm, wreg, atm>>

NextFpmath ==
  \E c \in Callers :
    \/ SetCall(c)
    \/ SetCheck(c)
    \/ SetValue(c)
    \/ SetFlag(c)
    \/ GetCall(c)
    \/ GetNull(c)
    \/ InitInitialized(c)
    \/ InitEnv(c)
    \/ InitFallback(c)
    \/ GetValue(c)

SpecFpmath == InitFpmath /\ [][NextFpmath]_vars

\* ------------------------------------------------------ mode precedence
\* a get_fpmath_mode call that has returned
Got(c) ==
  /\ fpm.th[c].pc = "idle"
  /\ fpm.th[c].op \in {"get", "get_default"}
  /\ fpm.th[c].arg # "nullptr"

\* C28: a get_fpmath_mode call during which no set call was in progress
\* returns the mode of the latest successful set; when there has been none
\* it returns the mode DEFAULT_FPMATH_MODE names, or strict when that is not
\* one of the five names.
C28_Precedence ==
  \A c \in Callers :
    (Got(c) /\ fpm.th[c].alone) => fpm.th[c].mode = fpm.th[c].expect

\* ---------------------------------------------------------- mode validity
\* C29: dnnl_set_default_fpmath_mode with a value that is not a mode returns
\* invalid_arguments and has not written default_fpmath;
\* dnnl_get_default_fpmath_mode(nullptr) returns invalid_arguments and has
\* written neither through the pointer nor default_fpmath; the stored mode is
\* always one of the five modes, every return of a valid set is success, and
\* the assertion of get_fpmath_mode has held in every call.
C29_Validity ==
  /\ fpm.value_ \in ValidModes
  /\ \A c \in Callers :
       LET me == fpm.th[c]
       IN /\ me.asserted
          /\ (me.op = "set" /\ me.pc = "idle") =>
               IF me.arg \in ValidModes
               THEN me.ret = "success" /\ me.wrote
               ELSE me.ret = "invalid_arguments" /\ ~me.wrote
          /\ (me.op = "get_default" /\ me.arg = "nullptr") =>
               /\ me.ret = "invalid_arguments"
               /\ me.out = "unwritten"
               /\ ~me.wrote
          /\ (Got(c) /\ me.op = "get_default") =>
               (me.ret = "success" /\ me.out = me.mode
                  /\ me.out \in ValidModes)

\* after a set of bf16, one thread was refused an invalid mode and the other
\* a null pointer, and the stored mode is still bf16
C29_Witness ==
  /\ fpm.lastset = "bf16"
  /\ fpm.value_ = "bf16"
  /\ \E c \in Callers, d \in Callers :
       /\ fpm.th[c].op = "set" /\ fpm.th[c].pc = "idle"
       /\ fpm.th[c].arg \notin ValidModes
       /\ fpm.th[c].ret = "invalid_arguments"
       /\ fpm.th[d].op = "get_default" /\ fpm.th[d].arg = "nullptr"
       /\ fpm.th[d].ret = "invalid_arguments"

\* =========================================== _inductor/codegen/cpp_prefix.h
\* ---------------------------------------------------------------- atomic_add
\* T is float (the compare-exchange overload) or an unsigned integer of
\* MaxIntBits bits (the fetch_add overload)
AtomKinds == {"float", "int"}

\* val + offset in T: rounded to float, or wrapped to the width of the integer
add(kind, val, offset) ==
  IF kind = "float" THEN fp32(val + offset)
  ELSE (val + offset) % (2 ^ MaxIntBits)

\* the values at addr before the calls and the offsets added, per kind.  The
\* floats are in units of one ulp of the numbers below 2^24 units
AtomInitials(kind) ==
  IF kind = "float" THEN {0, 16777216} ELSE {0, 2 ^ MaxIntBits - 2}

AtomOffsets == {1, 2, 3}

NotCalling == [pc |-> "idle", offset |-> 0, expected |-> 0, desired |-> 0,
               tries |-> 0]

\* applied lists the calls in the order their updates of *addr took effect
InitAtomic ==
  /\ NoTensors
  /\ wreg = <<>>
  /\ fpm = <<>>
  /\ \E kind \in AtomKinds :
       \E v \in AtomInitials(kind) :
         atm = [kind |-> kind, initial |-> v, value |-> v,
                applied |-> <<>>, th |-> [c \in Callers |-> NotCalling]]

\* compare_exchange_weak that stores desired whatever *addr holds
compare_exchange_blind(current, expected) == TRUE

\* compare_exchange_weak(expected, desired) finds *addr equal to expected
compare_exchange(current, expected) == current = expected

\* a thread calls atomic_add(addr, offset); each thread calls once
AddCall(c) ==
  /\ atm.th[c].pc = "idle"
  /\ \E offset \in AtomOffsets :
       atm' = [atm EXCEPT
                 !.th[c] = [NotCalling EXCEPT
                              !.pc = IF atm.kind = "float" THEN "fetch_value"
                                     ELSE "fetch_add",
                              !.offset = offset]]
  /\ UNCHANGED <<mm, wreg, fpm>>

\* T val = fetch_value(addr); expected = val; desired = val + offset
FetchValue(c) ==
  /\ atm.th[c].pc = "fetch_value"
  /\ atm' = [atm EXCEPT
               !.th[c].pc = "compare_exchange",
               !.th[c].expected = atm.value,
               !.th[c].desired = add(atm.kind, atm.value, atm.th[c].offset),
               !.th[c].tries = IF @ < 2 THEN @ + 1 ELSE @]
  /\ UNCHANGED <<mm, wreg, fpm>>

\* compare_exchange_weak succeeds: *addr = desired and the loop ends
CompareExchangeSucceed(c) ==
  /\ atm.th[c].pc = "compare_exchange"
  /\ compare_exchange(atm.value, atm.th[c].expected)
  /\ atm' = [atm EXCEPT !.value = atm.th[c].desired,
                        !.applied = Append(@, c),
                        !.th[c].pc = "done"]
  /\ UNCHANGED <<mm, wreg, fpm>>

\* compare_exchange_weak fails, because *addr differs from expected or
\* spuriously; expected takes the value of *addr and the loop repeats
CompareExchangeFail(c) ==
  /\ atm.th[c].pc = "compare_exchange"
  /\ atm' = [atm EXCEPT !.th[c].pc = "fetch_value",
                        !.th[c].expected = atm.value]
  /\ UNCHANGED <<mm, wreg, fpm>>

\* atomic_addr->fetch_add(offset, std::memory_order_relaxed)
FetchAdd(c) ==
  /\ atm.th[c].pc = "fetch_add"
  /\ atm' = [atm EXCEPT
               !.value = add(atm.kind, atm.value, atm.th[c].offset),
               !.applied = Append(@, c),
               !.th[c].pc = "done"]
  /\ UNCHANGED <<mm, wreg, fpm>>

NextAtomic ==
  \E c \in Callers :
    \/ AddCall(c)
    \/ FetchValue(c)
    \/ CompareExchangeSucceed(c)
    \/ CompareExchangeFail(c)
    \/ FetchAdd(c)

\* every thread in a call goes on running, and a compare_exchange_weak that
\* is tried again and again with *addr equal to expected does not fail
\* spuriously for ever
SpecAtomic ==
  /\ InitAtomic
  /\ [][NextAtomic]_vars
  /\ \A c \in Callers :
       /\ WF_vars(FetchValue(c))
       /\ WF_vars(FetchAdd(c))
       /\ WF_vars(CompareExchangeFail(c) \/ CompareExchangeSucceed(c))
       /\ SF_vars(CompareExchangeSucceed(c))

\* the value at addr after the additions of the calls in seq, one at a time
RECURSIVE Applied(_)
Applied(seq) ==
  IF seq = <<>> THEN atm.initial
  ELSE add(atm.kind, Applied(SubSeq(seq, 1, Len(seq) - 1)),
           atm.th[seq[Len(seq)]].offset)

RECURSIVE OffsetSum(_)
OffsetSum(cs) ==
  IF cs = {} THEN 0
  ELSE LET c == CHOOSE x \in cs : TRUE
       IN atm.th[c].offset + OffsetSum(cs \ {c})

Returned == {c \in Callers : atm.th[c].pc = "done"}

InCall(c) == atm.th[c].pc \notin {"idle", "done"}

\* every call that returned updated *addr exactly once, no other call did
EachOnce ==
  /\ {atm.applied[i] : i \in DOMAIN atm.applied} = Returned
  /\ Len(atm.applied) = Cardinality(Returned)

\* a call whose compare-exchange no other call interferes with returns
Terminates ==
  \A c \in Callers :
    (InCall(c) /\ \A d \in Callers \ {c} : ~InCall(d))
      ~> (atm.th[c].pc = "done")

====
